---- MODULE Spec2Model ----
(***************************************************************************)
(* State-machine model of the web page analyzer:                           *)
(*   - MultipleUrlAnalyzer.AnalyzeURLs (worker pool, feeder, closer,        *)
(*     collector) with analyzeURLMulti run by every worker  (SpecBatch);    *)
(*   - one page analysis, Analyzer.AnalyzeURL behind analyzeURLHandler,     *)
(*     MultipleUrlAnalyzer.analyzeURLMulti and Analyzer.FetchPage behind    *)
(*     deepAnalysisHandler, with their link-probe goroutines  (SpecPage).   *)
(***************************************************************************)
EXTENDS Integers, Sequences, FiniteSets, TLC

(* ------------------------------ bounds --------------------------------- *)
MaxUrls == 2
MaxAnchors == 2
\* capacity of linkCh (100 in the code) and number of link checker
\* goroutines (20 in the code), scaled down with the pages
LinkChCap == 1
MaxLinkCheckers == 1
\* documents: comments before and after the doctype, inputs of a form, forms
\* of a page
MaxComments == 2
MaxInputs == 2
MaxForms == 3
MaxTitles == 2

(* ------------------------- values and errors --------------------------- *)
Nil == [kind |-> "nil", cause |-> "nil"]

Err(kind, cause) == [kind |-> kind, cause |-> cause]

Wrap(prefix, e) == [kind |-> prefix, cause |-> e.kind, inner |-> e.cause]

Min2(a, b) == IF a < b THEN a ELSE b

VARIABLES
  ctxDone,        \* the context handed to the top-level call is cancelled / past its deadline
  urls,           \* AnalyzeURLs: the URL list, one fetch input per URL
  maxWorkers,     \* MultipleUrlAnalyzer.maxWorkers
  semSize,        \* capacity of MultipleUrlAnalyzer.semaphore in bytes
  semCur,         \* bytes currently acquired from the semaphore
  tokens,         \* tokens in the rate limiter's bucket (burst 1)
  workerCh,       \* buffered channel of URL indexes
  workerChClosed,
  resultChan,
  errorChan,
  chansClosed,    \* resultChan and errorChan are closed
  wg,             \* sync.WaitGroup counter of AnalyzeURLs
  feederIdx,      \* next index the queueing goroutine sends; 0 = goroutine gone
  closerPc,
  wPc,            \* position of every worker goroutine
  wUrl,           \* URL index a worker holds
  wHeld,          \* bytes the worker's analyzeURLMulti holds from the semaphore
  mainPc,
  results,
  errs,
  retErr,
  analysed,       \* history: how often analyzeURLMulti was entered per URL index
  mode,           \* one page analysis: "handler" (analyzeURLHandler calling AnalyzeURL),
                  \* "direct" (AnalyzeURL called directly), "multi" (analyzeURLMulti),
                  \* "deep" (deepAnalysisHandler calling FetchPage), "idle"
  pin,            \* what the primary fetch of the page meets
  anchors,        \* hrefs of the <a> elements the tree walk has still to visit
  pPc,            \* position of the page analysis
  pErr,           \* the error the analysis returned
  pResult,        \* the AnalysisResult it returned (NoResult: nil)
  pHeld,          \* bytes analyzeURLMulti holds from the semaphore
  internalLinks,
  externalLinks,
  internalInaccessible,
  externalInaccessible,
  linkWg,         \* wg of analyzeDocument, linkWg of analyzeDocumentMulti
  linkCh,         \* analyzeDocumentMulti: buffered channel of links to check
  linkChClosed,
  gPc,            \* per link: position of the goroutine probing it
  gTmp,           \* per link: the counter value its goroutine read for ++
  probeOutcome,   \* per link: what its HEAD request met ("none": no probe)
  tallied,        \* history: the link's goroutine executed its ++
  dropped,        \* history: links the select's default branch gave up on
  saved,          \* the persistence layer: documents stored
  saveCalls,      \* history: calls of SaveAnalysis / SaveDeepAnalysis
  cancelAt,       \* history: pPc at the moment the context was cancelled, and
                  \* whether link probes were outstanding then
  rawURL,         \* the URL string the page analysis was called with
  hrefs,          \* the href values of the page's <a> elements, in document order
  doc,            \* analyzeDocument: the parsed tree handed to it
  dPc,            \* position of analyzeDocument in that tree
  htmlVersion,    \* analysis.HTMLVersion
  hasLoginForm,   \* analysis.HasLoginForm
  walkTodo,       \* the nodes processNode has still to visit, in document order
  formsEvaluated, \* history: the form nodes detectLoginForm was called on
  title,          \* analysis.Title
  req,            \* the API requests being served, one record per connection
  deepStore,      \* the documents of the deep analysis collection
  now,            \* the wall clock, in hours
  nextOid,        \* the ObjectIDs primitive.NewObjectID() has handed out
  failed,         \* AnalyzeURLs: the errors collected from errorChan
  combined        \* AnalyzeURLs: the error it returns for them

bvars == <<urls, maxWorkers, semSize, semCur, tokens, workerCh, workerChClosed,
           resultChan, errorChan, chansClosed, wg, feederIdx, closerPc, wPc, wUrl,
           wHeld, mainPc, results, errs, retErr, analysed>>

pvars == <<mode, pin, anchors, pPc, pErr, pResult, pHeld, internalLinks, externalLinks,
           internalInaccessible, externalInaccessible, linkWg, linkCh, linkChClosed,
           gPc, gTmp, probeOutcome, tallied, dropped, saved, saveCalls, cancelAt>>

\* what a page analysis is given and never changes
given == <<rawURL, hrefs>>

\* the tree walk of analyzeDocument apart from its links
dvars == <<doc, dPc, htmlVersion, hasLoginForm, walkTodo, formsEvaluated, title>>

\* the API server's handlers and the deep analysis collection
avars == <<req, deepStore, now, nextOid>>

\* the error list of a batch and what is made of it
evars == <<failed, combined>>

vars == <<ctxDone, bvars, pvars, given, dvars, avars, evars>>

(* --------------------------- primary fetch ----------------------------- *)
\* resp.ContentLength and estimatedMemory are int64: a 64-bit value is four
\* 16-bit limbs, least significant first, negative when the top bit is set.
Limb == 65536

\* the int64 of a small non-negative number
Int64(n) == <<n % Limb, (n \div Limb) % Limb, 0, 0>>

\* the number of an int64, for the values that fit the model's integers
ToInt(x) == x[1] + Limb * x[2]

\* x <= 0
NonPositive(x) == x[4] >= Limb \div 2 \/ x = <<0, 0, 0, 0>>

\* x * 5 in int64: the carry out of the top limb is lost
Times5(x) ==
  LET p1 == x[1] * 5
      p2 == x[2] * 5 + p1 \div Limb
      p3 == x[3] * 5 + p2 \div Limb
      p4 == x[4] * 5 + p3 \div Limb IN
    <<p1 % Limb, p2 % Limb, p3 % Limb, p4 % Limb>>

\* resp.ContentLength when the server declares no length: -1
UnknownLength == <<Limb - 1, Limb - 1, Limb - 1, Limb - 1>>

\* a small page
SmallLength == Int64(200000)

\* Content-Length: 3689348814741910324 (0x3333333333333334), which the
\* transport accepts as it is below 2^63
HugeLength == <<13108, 13107, 13107, 13107>>

\* What one primary fetch meets: url.Parse, http.NewRequestWithContext, the
\* transport, the status line, the Content-Length header and the body stream.
FetchInputs == [valid : BOOLEAN, reqOK : BOOLEAN, transport : {"ok", "timeout"},
                status : {"200", "404"}, contentLength : {UnknownLength, SmallLength}, bodyOK : BOOLEAN]

GoodPage(cl) == [valid |-> TRUE, reqOK |-> TRUE, transport |-> "ok", status |-> "200",
                 contentLength |-> cl, bodyOK |-> TRUE]

\* The URL lists of a batch are drawn from these: a page of unknown length, a
\* small page, a 404, an unreachable host, a body that breaks off, and a page
\* declared with a huge length.
BatchInputs == {GoodPage(UnknownLength), GoodPage(SmallLength),
                [GoodPage(UnknownLength) EXCEPT !.status = "404"],
                [GoodPage(UnknownLength) EXCEPT !.transport = "timeout"],
                [GoodPage(SmallLength) EXCEPT !.bodyOK = FALSE],
                GoodPage(HugeLength)}

\* mutant: the status check is missing
analyzeURLMulti_fetch_NoStatusCheck(in, done) ==
  IF ~in.valid THEN Err("invalid URL", "parse error")
  ELSE IF ~in.reqOK THEN Err("failed to create request", "bad request")
  ELSE IF done THEN Err("failed to fetch URL", "context canceled")
  ELSE IF in.transport # "ok" THEN Err("failed to fetch URL", in.transport)
  ELSE Nil

\* mutant: the request is sent without the caller's context
AnalyzeURL_fetch_IgnoresContext(in, done) ==
  IF ~in.valid THEN Err("invalid URL", "parse error")
  ELSE IF ~in.reqOK THEN Err("failed to create request", "bad request")
  ELSE IF in.transport # "ok" THEN Err("failed to fetch URL", in.transport)
  ELSE IF in.status # "200" THEN Err("HTTP error", in.status)
  ELSE Nil

\* AnalyzeURL up to the status check: Nil, or the error it returns.
AnalyzeURL_fetch(in, done) ==
  IF ~in.valid THEN Err("invalid URL", "parse error")
  ELSE IF ~in.reqOK THEN Err("failed to create request", "bad request")
  ELSE IF done THEN Err("failed to fetch URL", "context canceled")
  ELSE IF in.transport # "ok" THEN Err("failed to fetch URL", in.transport)
  ELSE IF in.status # "200" THEN Err("HTTP error", in.status)
  ELSE Nil

\* mutant: only server errors are refused (StatusCode >= 500)
FetchPage_fetch_ServerErrorsOnly(in, done) ==
  IF ~in.valid THEN Err("invalid URL", "parse error")
  ELSE IF ~in.reqOK THEN Err("failed to create request", "bad request")
  ELSE IF done THEN Err("failed to fetch URL", "context canceled")
  ELSE IF in.transport # "ok" THEN Err("failed to fetch URL", in.transport)
  ELSE IF in.status \notin {"200", "404"} THEN Err("HTTP error", in.status)
  ELSE Nil

\* FetchPage up to the status check: Nil, or the error it returns.
FetchPage_fetch(in, done) ==
  IF ~in.valid THEN Err("invalid URL", "parse error")
  ELSE IF ~in.reqOK THEN Err("failed to create request", "bad request")
  ELSE IF done THEN Err("failed to fetch URL", "context canceled")
  ELSE IF in.transport # "ok" THEN Err("failed to fetch URL", in.transport)
  ELSE IF in.status # "200" THEN Err("HTTP error", in.status)
  ELSE Nil

\* analyzeURLMulti up to the status check: Nil, or the error it returns.
analyzeURLMulti_fetch(in, done) ==
  IF ~in.valid THEN Err("invalid URL", "parse error")
  ELSE IF ~in.reqOK THEN Err("failed to create request", "bad request")
  ELSE IF done THEN Err("failed to fetch URL", "context canceled")
  ELSE IF in.transport # "ok" THEN Err("failed to fetch URL", in.transport)
  ELSE IF in.status # "200" THEN Err("HTTP error", in.status)
  ELSE Nil

\* rate.NewLimiter(opts.RequestsPerSecond, 1): the bucket holds one token
LimiterBurst == 1

\* contentLength * 5 in int64, with 1 MiB assumed when the length is unknown
\* (the lengths tried keep the product within the model's integers).
EstimatedMemory(contentLength) ==
  ToInt(Times5(IF NonPositive(contentLength) THEN Int64(1024 * 1024) ELSE contentLength))

\* NewMultipleUrlAnalyzer: the semaphore's capacity for MaxMemoryMB.
SemaphoreSize(maxMemoryMB) == maxMemoryMB * 1024 * 1024

\* The MaxConcurrentRequests settings tried: one worker, and two that run
\* concurrently.
WorkerOptions == {1, 2}

\* The MaxMemoryMB settings tried: 1 MiB (a page of unknown length can never
\* be admitted), 8 MiB (one such page at a time).
MemoryOptions == {1, 8}

\* mutant: a single error is swallowed (len(errs) > 1)
\* fmt.Errorf(errorMsg) takes the text as a format without operands: a
\* percent verb in it comes out as %!verb(MISSING)
Format(token) == IF token = "%2F" THEN "%!F(MISSING)" ELSE token

\* an error's message as it stands in the combined error: the errors of the
\* URLs of a batch run have no percent sign in them
Errorf(e) ==
  IF "text" \in DOMAIN e THEN [text |-> [i \in 1..Len(e.text) |-> Format(e.text[i])]] ELSE e

CombineErrors_MoreThanOne(es) ==
  IF Len(es) > 1
  THEN [kind |-> "errors occurred during analysis", total |-> Len(es),
        listed |-> [i \in 1..Min2(5, Len(es)) |-> Errorf(es[i])],
        more |-> IF Len(es) > 5 THEN Len(es) - 5 ELSE 0]
  ELSE Nil

\* The error AnalyzeURLs builds from the collected errors (nil when none).
CombineErrors(es) ==
  IF Len(es) > 0
  THEN [kind |-> "errors occurred during analysis", total |-> Len(es),
        listed |-> [i \in 1..Min2(5, Len(es)) |-> Errorf(es[i])],
        more |-> IF Len(es) > 5 THEN Len(es) - 5 ELSE 0]
  ELSE Nil

(* ------------------------------- links --------------------------------- *)
\* A URL is a host and a path; its string is a sequence of tokens, cut so
\* that one string is a prefix of another exactly when the token sequences are.
URLString(u) == <<"https://">> \o u.host \o u.path

HasPrefix(s, t) == Len(t) <= Len(s) /\ SubSeq(s, 1, Len(t)) = t

\* The URL strings an analysis is called with: a page given with its scheme,
\* and the same page given without one.
WithScheme == <<"https://", "a", "/p">>

WithoutScheme == <<"a", "/p">>

RawURLs == {WithScheme, WithoutScheme}

\* url.Parse: without a leading scheme and "//" there is no authority, and
\* the whole string is the path.
ParseURL(raw) ==
  IF raw # <<>> /\ Head(raw) = "https://"
  THEN [scheme |-> "https", host |-> SubSeq(raw, 2, 2), path |-> SubSeq(raw, 3, Len(raw))]
  ELSE [scheme |-> "", host |-> <<>>, path |-> raw]

\* if parsedURL.Scheme == "" { parsedURL.Scheme = "https" }: the fields
\* url.Parse has filled stay as they are
DefaultScheme(u) == [host |-> u.host, path |-> u.path]

\* The URL of the analysed page (parsedURL, handed on as baseURL).
BaseURL == DefaultScheme(ParseURL(rawURL))

\* The hrefs a page is built from: the page itself, the site's root, the page
\* itself as an absolute URL, a page of the www-variant of the host, and
\* hrefs that are fragment-only, empty, or not parseable.
PageHrefs == {[kind |-> "rel", host |-> <<>>, path |-> <<"/p">>],
              [kind |-> "rel", host |-> <<>>, path |-> <<"/">>],
              [kind |-> "abs", host |-> <<"a">>, path |-> <<"/p">>],
              [kind |-> "abs", host |-> <<"www.", "a">>, path |-> <<"/">>],
              [kind |-> "fragment", host |-> <<>>, path |-> <<"#top">>],
              [kind |-> "empty", host |-> <<>>, path |-> <<>>],
              [kind |-> "invalid", host |-> <<>>, path |-> <<"%zz">>]}

\* mutant: only the empty href is skipped
SkippedHref_EmptyOnly(h) == h.kind = "empty"

\* linkURL == "" || strings.HasPrefix(linkURL, "#"), or url.Parse fails
SkippedHref(h) == h.kind \in {"empty", "fragment", "invalid"}

\* baseURL.ResolveReference(parsedLink)
ResolveReference(base, h) ==
  IF h.kind = "abs" THEN [host |-> h.host, path |-> h.path]
  ELSE [host |-> base.host, path |-> h.path]

\* the resolved URLs a page's anchors can yield
ResolvedURLs == {ResolveReference(BaseURL, h) : h \in {x \in PageHrefs : ~SkippedHref(x)}}

AllLinks == {URLString(u) : u \in ResolvedURLs}

\* the URL with this string
HostOf(l) == CHOOSE u \in ResolvedURLs : URLString(u) = l

\* mutant: a leading "www." is ignored when hosts are compared
IsInternal_IgnoresWWW(base, u) ==
  LET Strip(h) == IF h # <<>> /\ Head(h) = "www." THEN Tail(h) ELSE h IN
    Strip(u.host) = Strip(base.host)

\* resolvedURL.Host == baseURL.Host
IsInternal(base, u) == u.host = base.host

SameHost(l) == IsInternal(BaseURL, HostOf(l))

\* What a HEAD request can meet: no response (transport error, timeout,
\* request construction failure) or a status.
ProbeOutcomes == {[err |-> TRUE, status |-> 0], [err |-> FALSE, status |-> 200],
                  [err |-> FALSE, status |-> 399], [err |-> FALSE, status |-> 400],
                  [err |-> FALSE, status |-> 404]}

NoProbe == [err |-> FALSE, status |-> -1]

\* mutant: the upper bound is off by one (StatusCode <= 400)
isLinkAccessible_UpTo400(o) == ~o.err /\ o.status >= 200 /\ o.status <= 400

\* isLinkAccessible / isLinkAccessibleMulti on the outcome of the request
isLinkAccessible(o) == ~o.err /\ o.status >= 200 /\ o.status < 400

isLinkAccessibleMulti(o) == ~o.err /\ o.status >= 200 /\ o.status < 400

NotCancelled == [pc |-> "none", probing |-> FALSE]

NoResult == [internal |-> <<-1, -1>>, external |-> <<-1, -1>>]

\* A node of the parsed tree (html.Node): its type, its Data (the tag of an
\* element), its attributes in source order and its children.
Node(type, data, attr, children) ==
  [type |-> type, data |-> data, attr |-> attr, children |-> children]

Attr(key, val) == [key |-> key, val |-> val]

NoDocument == Node("none", "", <<>>, <<>>)

\* No tree is being walked.
DocIdle ==
  /\ doc = NoDocument
  /\ dPc = "idle"
  /\ htmlVersion = ""
  /\ hasLoginForm = FALSE
  /\ walkTodo = <<>>
  /\ formsEvaluated = <<>>
  /\ title = ""

\* the connections the server serves at a time
Requests == {1, 2}

\* a connection on which no request has arrived
NoRequest == [pc |-> "idle"]

\* No API request is being served, the deep collection is empty.
ApiIdle ==
  /\ req = [r \in Requests |-> NoRequest]
  /\ deepStore = {}
  /\ now = 0
  /\ nextOid = 1

\* No error list is being combined.
ErrIdle ==
  /\ failed = <<>>
  /\ combined = Nil

\* The page analysis is not running (the state of a batch-only run).
PageIdle ==
  /\ mode = "idle"
  /\ rawURL = WithScheme
  /\ hrefs = <<>>
  /\ pin = GoodPage(UnknownLength)
  /\ anchors = <<>>
  /\ pPc = "idle"
  /\ pErr = Nil
  /\ pResult = NoResult
  /\ pHeld = 0
  /\ internalLinks = {}
  /\ externalLinks = {}
  /\ internalInaccessible = 0
  /\ externalInaccessible = 0
  /\ linkWg = 0
  /\ linkCh = <<>>
  /\ linkChClosed = FALSE
  /\ gPc = [l \in AllLinks |-> "none"]
  /\ gTmp = [l \in AllLinks |-> 0]
  /\ probeOutcome = [l \in AllLinks |-> NoProbe]
  /\ tallied = [l \in AllLinks |-> FALSE]
  /\ dropped = {}
  /\ saved = <<>>
  /\ saveCalls = 0
  /\ cancelAt = NotCancelled

(* ------------------------------ AnalyzeURLs ---------------------------- *)
Workers == 1..maxWorkers

InitBatch ==
  /\ ctxDone = FALSE
  /\ urls \in UNION {[1..n -> BatchInputs] : n \in 0..MaxUrls}
  /\ maxWorkers \in WorkerOptions
  /\ semSize \in {SemaphoreSize(mb) : mb \in MemoryOptions}
  /\ semCur = 0
  /\ tokens = LimiterBurst
  /\ workerCh = <<>>
  /\ workerChClosed = FALSE
  /\ resultChan = <<>>
  /\ errorChan = <<>>
  /\ chansClosed = FALSE
  /\ wg = Len(urls)
  /\ feederIdx = 1
  /\ closerPc = "wait"
  /\ wPc = [w \in 1..maxWorkers |-> "recv"]
  /\ wUrl = [w \in 1..maxWorkers |-> 0]
  /\ wHeld = [w \in 1..maxWorkers |-> 0]
  /\ mainPc = "results"
  /\ results = <<>>
  /\ errs = <<>>
  /\ retErr = Nil
  /\ analysed = [i \in 1..Len(urls) |-> 0]
  /\ PageIdle
  /\ DocIdle
  /\ ApiIdle
  /\ ErrIdle

\* The caller cancels the context, or its deadline passes.
Cancel ==
  /\ ~ctxDone
  /\ mainPc # "returned"
  /\ ctxDone' = TRUE
  /\ UNCHANGED <<bvars, pvars, given, avars, evars, dvars>>

\* Time passes and the token bucket (burst 1) refills.
LimiterRefill ==
  /\ tokens = 0
  /\ mainPc # "returned"
  /\ tokens' = LimiterBurst
  /\ UNCHANGED <<pvars, given, avars, evars, dvars, ctxDone, urls, maxWorkers, semSize, semCur, workerCh, workerChClosed,
                 resultChan, errorChan, chansClosed, wg, feederIdx, closerPc, wPc, wUrl,
                 wHeld, mainPc, results, errs, retErr, analysed>>

\* mutant: the received URL stays in the channel
AfterReceive_Peek(ch) == ch

\* the channel after a receive
AfterReceive(ch) == Tail(ch)

\* for urlStr := range workerCh
WorkerRecv(w) ==
  /\ wPc[w] = "recv"
  /\ workerCh # <<>>
  /\ wUrl' = [wUrl EXCEPT ![w] = Head(workerCh)]
  /\ workerCh' = AfterReceive(workerCh)
  /\ wPc' = [wPc EXCEPT ![w] = "wait"]
  /\ UNCHANGED <<pvars, given, avars, evars, dvars, ctxDone, urls, maxWorkers, semSize, semCur, tokens, workerChClosed,
                 resultChan, errorChan, chansClosed, wg, feederIdx, closerPc,
                 wHeld, mainPc, results, errs, retErr, analysed>>

\* the range loop ends on the closed, drained channel; the goroutine returns nil
WorkerExit(w) ==
  /\ wPc[w] = "recv"
  /\ workerCh = <<>>
  /\ workerChClosed
  /\ wPc' = [wPc EXCEPT ![w] = "exit"]
  /\ UNCHANGED <<pvars, given, avars, evars, dvars, ctxDone, urls, maxWorkers, semSize, semCur, tokens, workerCh,
                 workerChClosed, resultChan, errorChan, chansClosed, wg, feederIdx,
                 closerPc, wUrl, wHeld, mainPc, results, errs, retErr, analysed>>

\* The WaitGroup counter after the rate-limiter error branch (errorChan <- ...;
\* continue): the branch skips wg.Done().
WgAfterLimiterError(n) == n

\* a.limiter.Wait(ctx): an error once ctx is done, else it takes a token
WorkerLimiterWait(w) ==
  /\ wPc[w] = "wait"
  /\ \/ /\ ctxDone
        /\ errorChan' = Append(errorChan,
               [url |-> wUrl[w], err |-> Err("rate limiter error", "context canceled")])
        /\ wg' = WgAfterLimiterError(wg)
        /\ wPc' = [wPc EXCEPT ![w] = "recv"]
        /\ UNCHANGED tokens
     \/ /\ ~ctxDone
        /\ tokens > 0
        /\ tokens' = tokens - 1
        /\ wPc' = [wPc EXCEPT ![w] = "fetch"]
        /\ UNCHANGED <<errorChan, wg>>
  /\ UNCHANGED <<pvars, given, avars, evars, dvars, ctxDone, urls, maxWorkers, semSize, semCur, workerCh, workerChClosed,
                 resultChan, chansClosed, feederIdx, closerPc, wUrl, wHeld, mainPc,
                 results, errs, retErr, analysed>>

\* What the worker loop does with analyzeURLMulti's (nil, err): it sends the
\* wrapped error and calls wg.Done().
ReportError(w, e) ==
  /\ errorChan' = Append(errorChan, [url |-> wUrl[w], err |-> Wrap("error analyzing", e)])
  /\ wg' = wg - 1
  /\ wPc' = [wPc EXCEPT ![w] = "recv"]
  /\ UNCHANGED resultChan

\* What the worker loop does with analyzeURLMulti's (result, nil).
ReportResult(w) ==
  /\ resultChan' = Append(resultChan, [url |-> wUrl[w]])
  /\ wg' = wg - 1
  /\ wPc' = [wPc EXCEPT ![w] = "recv"]
  /\ UNCHANGED errorChan

\* analyzeURLMulti: url.Parse .. status check
WorkerFetch(w) ==
  /\ wPc[w] = "fetch"
  /\ analysed' = [analysed EXCEPT ![wUrl[w]] = @ + 1]
  /\ LET e == analyzeURLMulti_fetch(urls[wUrl[w]], ctxDone) IN
       IF e # Nil
       THEN ReportError(w, e)
       ELSE /\ wPc' = [wPc EXCEPT ![w] = "acquire"]
            /\ UNCHANGED <<errorChan, resultChan, wg>>
  /\ UNCHANGED <<pvars, given, avars, evars, dvars, ctxDone, urls, maxWorkers, semSize, semCur, tokens, workerCh,
                 workerChClosed, chansClosed, feederIdx, closerPc, wUrl, wHeld, mainPc,
                 results, errs, retErr>>

\* a.semaphore.Acquire(ctx, estimatedMemory): granted when the bytes are free;
\* an error once ctx is done; otherwise the call blocks (for ever when the
\* request exceeds the semaphore's capacity and ctx is never done).
WorkerAcquire(w) ==
  /\ wPc[w] = "acquire"
  /\ LET n == EstimatedMemory(urls[wUrl[w]].contentLength) IN
       \/ /\ semSize - semCur >= n
          /\ semCur' = semCur + n
          /\ wHeld' = [wHeld EXCEPT ![w] = n]
          /\ wPc' = [wPc EXCEPT ![w] = "read"]
          /\ UNCHANGED <<errorChan, resultChan, wg>>
       \/ /\ ctxDone
          /\ ReportError(w, Err("resource acquisition failed", "context canceled"))
          /\ UNCHANGED <<semCur, wHeld>>
  /\ UNCHANGED <<pvars, given, avars, evars, dvars, ctxDone, urls, maxWorkers, semSize, tokens, workerCh, workerChClosed,
                 chansClosed, feederIdx, closerPc, wUrl, mainPc, results, errs, retErr,
                 analysed>>

\* defer a.semaphore.Release(estimatedMemory)
Release(w) ==
  /\ semCur' = semCur - wHeld[w]
  /\ wHeld' = [wHeld EXCEPT ![w] = 0]

\* io.ReadAll(resp.Body): fails on a broken body; once ctx is done the read may
\* fail or may still deliver an already buffered body.
WorkerRead(w) ==
  /\ wPc[w] = "read"
  /\ \/ /\ ~urls[wUrl[w]].bodyOK \/ ctxDone
        /\ Release(w)
        /\ ReportError(w, Err("failed to read response body",
                              IF ctxDone THEN "context canceled" ELSE "unexpected EOF"))
     \/ /\ urls[wUrl[w]].bodyOK
        /\ wPc' = [wPc EXCEPT ![w] = "analyze"]
        /\ UNCHANGED <<semCur, wHeld, errorChan, resultChan, wg>>
  /\ UNCHANGED <<pvars, given, avars, evars, dvars, ctxDone, urls, maxWorkers, semSize, tokens, workerCh, workerChClosed,
                 chansClosed, feederIdx, closerPc, wUrl, mainPc, results, errs, retErr,
                 analysed>>

\* html.Parse and analyzeDocumentMulti, which always comes back (SpecPage
\* follows it step by step); analyzeURLMulti returns (analysis, nil).
WorkerAnalyze(w) ==
  /\ wPc[w] = "analyze"
  /\ Release(w)
  /\ ReportResult(w)
  /\ UNCHANGED <<pvars, given, avars, evars, dvars, ctxDone, urls, maxWorkers, semSize, tokens, workerCh, workerChClosed,
                 chansClosed, feederIdx, closerPc, wUrl, mainPc, results, errs, retErr,
                 analysed>>

\* the queueing goroutine: case workerCh <- urlStr
FeederSend ==
  /\ feederIdx \in 1..Len(urls)
  /\ Len(workerCh) < maxWorkers
  /\ workerCh' = Append(workerCh, feederIdx)
  /\ feederIdx' = feederIdx + 1
  /\ UNCHANGED <<pvars, given, avars, evars, dvars, ctxDone, urls, maxWorkers, semSize, semCur, tokens, workerChClosed,
                 resultChan, errorChan, chansClosed, wg, closerPc, wPc, wUrl, wHeld,
                 mainPc, results, errs, retErr, analysed>>

\* the queueing goroutine: case <-ctx.Done(): return
FeederCancelled ==
  /\ feederIdx \in 1..Len(urls)
  /\ ctxDone
  /\ feederIdx' = 0
  /\ UNCHANGED <<pvars, given, avars, evars, dvars, ctxDone, urls, maxWorkers, semSize, semCur, tokens, workerCh,
                 workerChClosed, resultChan, errorChan, chansClosed, wg, closerPc, wPc,
                 wUrl, wHeld, mainPc, results, errs, retErr, analysed>>

\* wg.Wait(); close(workerCh); close(resultChan); close(errorChan)
Closer ==
  /\ closerPc = "wait"
  /\ wg = 0
  /\ closerPc' = "done"
  /\ workerChClosed' = TRUE
  /\ chansClosed' = TRUE
  /\ UNCHANGED <<pvars, given, avars, evars, dvars, ctxDone, urls, maxWorkers, semSize, semCur, tokens, workerCh,
                 resultChan, errorChan, wg, feederIdx, wPc, wUrl, wHeld, mainPc,
                 results, errs, retErr, analysed>>

\* for result := range resultChan
MainCollectResult ==
  /\ mainPc = "results"
  /\ IF resultChan # <<>>
     THEN /\ results' = Append(results, Head(resultChan))
          /\ resultChan' = Tail(resultChan)
          /\ UNCHANGED mainPc
     ELSE /\ chansClosed
          /\ mainPc' = "errors"
          /\ UNCHANGED <<results, resultChan>>
  /\ UNCHANGED <<pvars, given, avars, evars, dvars, ctxDone, urls, maxWorkers, semSize, semCur, tokens, workerCh,
                 workerChClosed, errorChan, chansClosed, wg, feederIdx, closerPc, wPc,
                 wUrl, wHeld, errs, retErr, analysed>>

\* for err := range errorChan
MainCollectError ==
  /\ mainPc = "errors"
  /\ IF errorChan # <<>>
     THEN /\ errs' = Append(errs, Head(errorChan))
          /\ errorChan' = Tail(errorChan)
          /\ UNCHANGED mainPc
     ELSE /\ chansClosed
          /\ mainPc' = "gwait"
          /\ UNCHANGED <<errs, errorChan>>
  /\ UNCHANGED <<pvars, given, avars, evars, dvars, ctxDone, urls, maxWorkers, semSize, semCur, tokens, workerCh,
                 workerChClosed, resultChan, chansClosed, wg, feederIdx, closerPc, wPc,
                 wUrl, wHeld, results, retErr, analysed>>

\* g.Wait() (no worker returns an error), then the combined error or nil
MainReturn ==
  /\ mainPc = "gwait"
  /\ \A w \in Workers : wPc[w] = "exit"
  /\ retErr' = CombineErrors(errs)
  /\ mainPc' = "returned"
  /\ UNCHANGED <<pvars, given, avars, evars, dvars, ctxDone, urls, maxWorkers, semSize, semCur, tokens, workerCh,
                 workerChClosed, resultChan, errorChan, chansClosed, wg, feederIdx,
                 closerPc, wPc, wUrl, wHeld, results, errs, analysed>>

Worker(w) ==
  \/ WorkerRecv(w)
  \/ WorkerExit(w)
  \/ WorkerLimiterWait(w)
  \/ WorkerFetch(w)
  \/ WorkerAcquire(w)
  \/ WorkerRead(w)
  \/ WorkerAnalyze(w)

\* every step of the program itself: all but the caller's cancellation
BatchProgram ==
  \/ \E w \in Workers : Worker(w)
  \/ FeederSend
  \/ FeederCancelled
  \/ Closer
  \/ MainCollectResult
  \/ MainCollectError
  \/ MainReturn
  \/ LimiterRefill

NextBatch == BatchProgram \/ Cancel

SpecBatch == InitBatch /\ [][NextBatch]_vars

\* Every goroutine that can take a step eventually takes one, and time passes.
FairBatch == SpecBatch /\ WF_vars(BatchProgram)

(* --------------------------- one page analysis ------------------------- *)
\* the batch variables a page analysis leaves alone (all but the semaphore)
bidle == <<urls, maxWorkers, semSize, tokens, workerCh, workerChClosed, resultChan,
           errorChan, chansClosed, wg, feederIdx, closerPc, wPc, wUrl, wHeld, mainPc,
           results, errs, retErr, analysed>>

\* DefaultAnalyzerOptions().MaxMemoryMB
DefaultMaxMemoryMB == 1024

\* Pages of unknown length, with every combination of what can go wrong.
PageInputs == {in \in FetchInputs : in.contentLength = UnknownLength}

AnchorSeqs == UNION {[1..n -> PageHrefs] : n \in 0..MaxAnchors}

InitPage ==
  /\ ctxDone = FALSE
  /\ DocIdle
  /\ ApiIdle
  /\ ErrIdle
  /\ urls = <<>>
  /\ maxWorkers = 1
  /\ semSize = SemaphoreSize(DefaultMaxMemoryMB)
  /\ semCur = 0
  /\ tokens = LimiterBurst
  /\ workerCh = <<>>
  /\ workerChClosed = FALSE
  /\ resultChan = <<>>
  /\ errorChan = <<>>
  /\ chansClosed = FALSE
  /\ wg = 0
  /\ feederIdx = 0
  /\ closerPc = "idle"
  /\ wPc = [w \in 1..maxWorkers |-> "none"]
  /\ wUrl = [w \in 1..maxWorkers |-> 0]
  /\ wHeld = [w \in 1..maxWorkers |-> 0]
  /\ mainPc = "idle"
  /\ results = <<>>
  /\ errs = <<>>
  /\ retErr = Nil
  /\ analysed = <<>>
  /\ mode \in {"handler", "direct", "multi", "deep"}
  /\ pin \in PageInputs
  \* gin's binding (required,url) has accepted the URL the handler passes
  \* on: it parses, has a scheme and is not rewritten before the request
  /\ mode = "handler" => (pin.valid /\ pin.reqOK)
  \* FetchPage's processDocument probes no link: its anchors are left out
  /\ anchors \in (IF mode # "deep" THEN AnchorSeqs ELSE {<<>>})
  /\ hrefs = anchors
  \* the binding's url rule refuses a URL without a scheme
  /\ rawURL \in (IF mode \in {"direct", "multi"} THEN RawURLs ELSE {WithScheme})
  \* a URL of a batch is handed to analyzeURLMulti after limiter.Wait
  /\ pPc = (IF mode = "multi" THEN "limiter" ELSE "fetch")
  /\ pErr = Nil
  /\ pResult = NoResult
  /\ pHeld = 0
  /\ internalLinks = {}
  /\ externalLinks = {}
  /\ internalInaccessible = 0
  /\ externalInaccessible = 0
  /\ linkWg = 0
  /\ linkCh = <<>>
  /\ linkChClosed = FALSE
  /\ gPc = [l \in AllLinks |-> "none"]
  /\ gTmp = [l \in AllLinks |-> 0]
  /\ probeOutcome = [l \in AllLinks |-> NoProbe]
  /\ tallied = [l \in AllLinks |-> FALSE]
  /\ dropped = {}
  /\ saved = <<>>
  /\ saveCalls = 0
  /\ cancelAt = NotCancelled

\* The caller's context is cancelled, or its deadline passes.
PageCancel ==
  /\ ~ctxDone
  /\ pPc \notin {"idle", "done"}
  /\ ~(pPc = "returned" /\ mode \in {"direct", "multi"})
  /\ ctxDone' = TRUE
  /\ cancelAt' = [pc |-> pPc, probing |-> \E l \in AllLinks : gPc[l] \in {"queued", "probe"}]
  /\ UNCHANGED <<bidle, given, avars, evars, dvars, semCur, mode, pin, anchors, pPc, pErr, pResult, pHeld,
                 internalLinks, externalLinks, internalInaccessible,
                 externalInaccessible, linkWg, linkCh, linkChClosed, gPc, gTmp,
                 probeOutcome, tallied, dropped, saved, saveCalls>>

\* The worker of AnalyzeURLs that holds this URL: a.limiter.Wait(ctx) takes
\* the token, or fails once ctx is done and analyzeURLMulti is not called.
PageLimiterWait ==
  /\ pPc = "limiter"
  /\ \/ /\ ctxDone
        /\ pErr' = Err("rate limiter error", "context canceled")
        /\ pPc' = "returned"
        /\ UNCHANGED tokens
     \/ /\ ~ctxDone
        /\ tokens > 0
        /\ tokens' = tokens - 1
        /\ pPc' = "fetch"
        /\ UNCHANGED pErr
  /\ UNCHANGED <<ctxDone, urls, maxWorkers, semSize, semCur, workerCh, workerChClosed,
                 resultChan, errorChan, chansClosed, wg, feederIdx, closerPc, wPc, wUrl,
                 wHeld, mainPc, results, errs, retErr, analysed, given, avars, evars, dvars,
                 mode, pin, anchors, pResult, pHeld,
                 internalLinks, externalLinks, internalInaccessible,
                 externalInaccessible, linkWg, linkCh, linkChClosed, gPc, gTmp,
                 probeOutcome, tallied, dropped, saved, saveCalls, cancelAt>>

\* url.Parse, http.NewRequestWithContext, client.Do and the status check of
\* AnalyzeURL, analyzeURLMulti or FetchPage
PageFetch ==
  /\ pPc = "fetch"
  /\ LET e == IF mode = "multi" THEN analyzeURLMulti_fetch(pin, ctxDone)
              ELSE IF mode = "deep" THEN FetchPage_fetch(pin, ctxDone)
              ELSE AnalyzeURL_fetch(pin, ctxDone) IN
       IF e # Nil
       THEN pErr' = e /\ pPc' = "returned"
       ELSE pErr' = pErr /\ pPc' = (IF mode = "multi" THEN "acquire" ELSE "read")
  /\ UNCHANGED <<ctxDone, bidle, given, avars, evars, dvars, semCur, mode, pin, anchors, pResult, pHeld,
                 internalLinks, externalLinks, internalInaccessible,
                 externalInaccessible, linkWg, linkCh, linkChClosed, gPc, gTmp,
                 probeOutcome, tallied, dropped, saved, saveCalls, cancelAt>>

\* analyzeURLMulti: a.semaphore.Acquire(ctx, estimatedMemory)
PageAcquire ==
  /\ pPc = "acquire"
  /\ LET n == EstimatedMemory(pin.contentLength) IN
       \/ /\ semSize - semCur >= n
          /\ semCur' = semCur + n
          /\ pHeld' = n
          /\ pPc' = "read"
          /\ UNCHANGED pErr
       \/ /\ ctxDone
          /\ pErr' = Err("resource acquisition failed", "context canceled")
          /\ pPc' = "returned"
          /\ UNCHANGED <<semCur, pHeld>>
  /\ UNCHANGED <<ctxDone, bidle, given, avars, evars, dvars, mode, pin, anchors, pResult,
                 internalLinks, externalLinks, internalInaccessible,
                 externalInaccessible, linkWg, linkCh, linkChClosed, gPc, gTmp,
                 probeOutcome, tallied, dropped, saved, saveCalls, cancelAt>>

\* io.ReadAll(resp.Body) and html.Parse (which does not fail on a string
\* reader); a failed read returns through the deferred Release. FetchPage
\* runs processDocument, which probes nothing, and returns its PageData.
PageRead ==
  /\ pPc = "read"
  /\ \/ /\ ~pin.bodyOK \/ ctxDone
        /\ pErr' = Err("failed to read response body",
                       IF ctxDone THEN "context canceled" ELSE "unexpected EOF")
        /\ pPc' = "returned"
        /\ semCur' = semCur - pHeld
        /\ pHeld' = 0
        /\ UNCHANGED pResult
     \/ /\ pin.bodyOK
        /\ IF mode = "deep"
           THEN pPc' = "returned" /\ pResult' = [internal |-> <<0, 0>>, external |-> <<0, 0>>]
           ELSE pPc' = "walk" /\ pResult' = pResult
        /\ UNCHANGED <<pErr, semCur, pHeld>>
  /\ UNCHANGED <<ctxDone, bidle, given, avars, evars, dvars, mode, pin, anchors,
                 internalLinks, externalLinks, internalInaccessible,
                 externalInaccessible, linkWg, linkCh, linkChClosed, gPc, gTmp,
                 probeOutcome, tallied, dropped, saved, saveCalls, cancelAt>>

\* analyzeDocument: wg.Add(1); go func(link) {...}(resolvedURL.String())
StartProbe(l) ==
  /\ linkWg' = linkWg + 1
  /\ gPc' = [gPc EXCEPT ![l] = "probe"]
  /\ UNCHANGED <<linkCh, dropped>>

\* analyzeDocumentMulti: linkWg.Add(1); select { case linkCh <- link: default: linkWg.Done() }
QueueProbe(l) ==
  IF Len(linkCh) < LinkChCap
  THEN /\ linkWg' = linkWg + 1
       /\ linkCh' = Append(linkCh, l)
       /\ gPc' = [gPc EXCEPT ![l] = "queued"]
       /\ UNCHANGED dropped
  ELSE /\ dropped' = dropped \cup {l}
       /\ UNCHANGED <<linkWg, linkCh, gPc>>

\* processNode on the next <a> element: skip, or resolve, classify by host,
\* record on first sighting and hand the link to a probe. The batch analyzer
\* leaves the node alone once ctx is done.
PageWalkAnchor ==
  /\ pPc = "walk"
  /\ anchors # <<>>
  /\ anchors' = Tail(anchors)
  /\ LET h == Head(anchors)
         l == URLString(ResolveReference(BaseURL, h))
         internal == IsInternal(BaseURL, ResolveReference(BaseURL, h)) IN
       IF (mode = "multi" /\ ctxDone) \/ SkippedHref(h)
          \/ (internal /\ l \in internalLinks) \/ (~internal /\ l \in externalLinks)
       THEN UNCHANGED <<internalLinks, externalLinks, linkWg, linkCh, gPc, dropped>>
       ELSE /\ internalLinks' = (IF internal THEN internalLinks \cup {l} ELSE internalLinks)
            /\ externalLinks' = (IF internal THEN externalLinks ELSE externalLinks \cup {l})
            /\ IF mode = "multi" THEN QueueProbe(l) ELSE StartProbe(l)
  /\ UNCHANGED <<ctxDone, bidle, given, avars, evars, dvars, semCur, mode, pin, pPc, pErr, pResult, pHeld,
                 internalInaccessible, externalInaccessible, linkChClosed, gTmp,
                 probeOutcome, tallied, saved, saveCalls, cancelAt>>

\* processNode(n) has returned: wg.Wait() / linkWg.Wait() comes next
PageWalkDone ==
  /\ pPc = "walk"
  /\ anchors = <<>>
  /\ pPc' = "wait"
  /\ UNCHANGED <<ctxDone, bidle, given, avars, evars, dvars, semCur, mode, pin, anchors, pErr, pResult, pHeld,
                 internalLinks, externalLinks, internalInaccessible,
                 externalInaccessible, linkWg, linkCh, linkChClosed, gPc, gTmp,
                 probeOutcome, tallied, dropped, saved, saveCalls, cancelAt>>

\* mutant: Wait returns at once
WaitReturns_AtOnce(counter) == TRUE

\* wg.Wait() / linkWg.Wait() returns when the counter is zero
WaitReturns(counter) == counter = 0

\* wg.Wait() returns (the batch analyzer closes linkCh), the counts are
\* written into the result, and the analysis returns (analysis, nil),
\* analyzeURLMulti through its deferred Release.
PageReturn ==
  /\ pPc = "wait"
  /\ WaitReturns(linkWg)
  /\ linkChClosed' = (mode = "multi")
  /\ pResult' = [internal |-> <<Cardinality(internalLinks), internalInaccessible>>,
                 external |-> <<Cardinality(externalLinks), externalInaccessible>>]
  /\ semCur' = semCur - pHeld
  /\ pHeld' = 0
  /\ pPc' = "returned"
  /\ UNCHANGED <<ctxDone, bidle, given, avars, evars, dvars, mode, pin, anchors, pErr,
                 internalLinks, externalLinks, internalInaccessible,
                 externalInaccessible, linkWg, linkCh, gPc, gTmp,
                 probeOutcome, tallied, dropped, saved, saveCalls, cancelAt>>

\* links a goroutine is working on (received, not yet linkWg.Done())
Active == {l \in AllLinks : gPc[l] \in {"probe", "read", "write"}}

\* analyzeDocumentMulti: for link := range linkCh, in one of the link checker
\* goroutines that is not busy
CheckerReceive ==
  /\ mode = "multi"
  /\ linkCh # <<>>
  /\ Cardinality(Active) < MaxLinkCheckers
  /\ gPc' = [gPc EXCEPT ![Head(linkCh)] = "probe"]
  /\ linkCh' = Tail(linkCh)
  /\ UNCHANGED <<ctxDone, bidle, given, avars, evars, dvars, semCur, mode, pin, anchors, pPc, pErr, pResult, pHeld,
                 internalLinks, externalLinks, internalInaccessible,
                 externalInaccessible, linkWg, linkChClosed, gTmp,
                 probeOutcome, tallied, dropped, saved, saveCalls, cancelAt>>

\* the request of a probe whose context is done fails with that error, and
\* so does a request for a URL without a host
ProbeMeets(l, o, done) ==
  IF done \/ HostOf(l).host = <<>> THEN [err |-> TRUE, status |-> 0] ELSE o

\* the verdict of the probe, by the analyzer that issued it
Verdict(m, o) == IF m = "multi" THEN isLinkAccessibleMulti(o) ELSE isLinkAccessible(o)

\* The counter a link's goroutine increments: analyzeDocument's closures sit
\* in the bucket's branch; analyzeDocumentMulti decides by
\* strings.HasPrefix(link, baseURL.String()).
TalliedInternal(m, l) ==
  IF m = "multi" THEN HasPrefix(l, URLString(BaseURL)) ELSE SameHost(l)

\* isLinkAccessible(ctx, link) returns; an accessible link's goroutine is done
Probe(l) ==
  /\ gPc[l] = "probe"
  /\ \E o \in ProbeOutcomes :
       LET met == ProbeMeets(l, o, ctxDone) IN
         /\ probeOutcome' = [probeOutcome EXCEPT ![l] = met]
         /\ IF Verdict(mode, met)
            THEN gPc' = [gPc EXCEPT ![l] = "done"] /\ linkWg' = linkWg - 1
            ELSE gPc' = [gPc EXCEPT ![l] = "read"] /\ linkWg' = linkWg
  /\ UNCHANGED <<ctxDone, bidle, given, avars, evars, dvars, semCur, mode, pin, anchors, pPc, pErr, pResult, pHeld,
                 internalLinks, externalLinks, internalInaccessible,
                 externalInaccessible, linkCh, linkChClosed, gTmp,
                 tallied, dropped, saved, saveCalls, cancelAt>>

\* internalInaccessible++ / externalInaccessible++ is a plain, unsynchronized
\* read-modify-write: the read ...
TallyRead(l) ==
  /\ gPc[l] = "read"
  /\ gTmp' = [gTmp EXCEPT ![l] = IF TalliedInternal(mode, l) THEN internalInaccessible
                                  ELSE externalInaccessible]
  /\ gPc' = [gPc EXCEPT ![l] = "write"]
  /\ UNCHANGED <<ctxDone, bidle, given, avars, evars, dvars, semCur, mode, pin, anchors, pPc, pErr, pResult, pHeld,
                 internalLinks, externalLinks, internalInaccessible,
                 externalInaccessible, linkWg, linkCh, linkChClosed,
                 probeOutcome, tallied, dropped, saved, saveCalls, cancelAt>>

\* ... and the write of the value read plus one; then wg.Done()
TallyWrite(l) ==
  /\ gPc[l] = "write"
  /\ IF TalliedInternal(mode, l)
     THEN internalInaccessible' = gTmp[l] + 1 /\ UNCHANGED externalInaccessible
     ELSE externalInaccessible' = gTmp[l] + 1 /\ UNCHANGED internalInaccessible
  /\ tallied' = [tallied EXCEPT ![l] = TRUE]
  /\ linkWg' = linkWg - 1
  /\ gPc' = [gPc EXCEPT ![l] = "done"]
  /\ UNCHANGED <<ctxDone, bidle, given, avars, evars, dvars, semCur, mode, pin, anchors, pPc, pErr, pResult, pHeld,
                 internalLinks, externalLinks, linkCh, linkChClosed, gTmp,
                 probeOutcome, dropped, saved, saveCalls, cancelAt>>

\* SaveAnalysis / SaveDeepAnalysis with the request's context: the driver
\* stores the document unless the context is done
Save(document) ==
  /\ saveCalls' = saveCalls + 1
  /\ saved' = (IF ctxDone THEN saved ELSE Append(saved, document))

\* analyzeURLHandler after AnalyzeURL: 400 on an error, else SaveAnalysis and 200
HandlerFinish ==
  /\ mode = "handler"
  /\ pPc = "returned"
  /\ IF pErr # Nil
     THEN UNCHANGED <<saved, saveCalls>>
     ELSE Save([kind |-> "analysis", result |-> pResult])
  /\ pPc' = "done"
  /\ UNCHANGED <<ctxDone, bidle, given, avars, evars, dvars, semCur, mode, pin, anchors, pErr, pResult, pHeld,
                 internalLinks, externalLinks, internalInaccessible,
                 externalInaccessible, linkWg, linkCh, linkChClosed, gPc, gTmp,
                 probeOutcome, tallied, dropped, cancelAt>>

\* deepAnalysisHandler after performDeepAnalysis: 500 when FetchPage failed,
\* else SaveDeepAnalysis and 200
DeepHandlerFinish ==
  /\ mode = "deep"
  /\ pPc = "returned"
  /\ IF pErr # Nil
     THEN UNCHANGED <<saved, saveCalls>>
     ELSE Save([kind |-> "deep", result |-> pResult])
  /\ pPc' = "done"
  /\ UNCHANGED <<ctxDone, bidle, given, avars, evars, dvars, semCur, mode, pin, anchors, pErr, pResult, pHeld,
                 internalLinks, externalLinks, internalInaccessible,
                 externalInaccessible, linkWg, linkCh, linkChClosed, gPc, gTmp,
                 probeOutcome, tallied, dropped, cancelAt>>

NextPage ==
  \/ PageCancel
  \/ PageLimiterWait
  \/ PageFetch
  \/ PageAcquire
  \/ PageRead
  \/ PageWalkAnchor
  \/ PageWalkDone
  \/ PageReturn
  \/ CheckerReceive
  \/ \E l \in AllLinks : Probe(l)
  \/ \E l \in AllLinks : TallyRead(l)
  \/ \E l \in AllLinks : TallyWrite(l)
  \/ HandlerFinish
  \/ DeepHandlerFinish

SpecPage == InitPage /\ [][NextPage]_vars

(* ------------------- the parsed tree and what is read off it ----------- *)
\* A string is a sequence of tokens, cut so that the substrings the code looks
\* for are tokens: strings.Contains(s, sub)
Contains(s, sub) == \E i \in 1..Len(s) : s[i] = sub

\* strings.ToLower
ToLower(s) ==
  [i \in 1..Len(s) |->
     CASE s[i] = "Login" -> "login"
       [] s[i] = "User" -> "user"
       [] s[i] = "Email" -> "email"
       [] s[i] = "SignIn" -> "signin"
       [] OTHER -> s[i]]

SeqsUpTo(S, n) == UNION {[1..k -> S] : k \in 0..n}

Comment == Node("comment", "", <<>>, <<>>)

Element(tag, attr, children) == Node("element", tag, attr, children)

Doctype(attr) == Node("doctype", "html", attr, <<>>)

Document(children) == Node("document", "", <<>>, children)

\* The public and system identifiers a doctype can carry: the three the code
\* knows, one it does not, and a system identifier that names another
\* version than the public one.
DoctypeValues == {<<"-//W3C//DTD ", "HTML 4.01", "//EN">>,
                  <<"-//W3C//DTD ", "XHTML 1.0", " Strict//EN">>,
                  <<"-//W3C//DTD ", "XHTML 1.1", "//EN">>,
                  <<"-//W3C//DTD ", "HTML 3.2", " Final//EN">>}

\* a doctype without identifiers, with a public identifier, with both
Doctypes ==
  {Doctype(<<>>)}
  \cup {Doctype(<<Attr("public", v)>>) : v \in DoctypeValues}
  \cup {Doctype(<<Attr("public", v), Attr("system", w)>>) : v, w \in DoctypeValues}

\* Documents for the version, as html.Parse builds them: under the root an
\* html element, before it at most one doctype, and comments before and after
\* the doctype.
VersionDocs ==
  {Document(pre \o dt \o mid \o <<Element("html", <<>>, <<>>)>>) :
     pre \in SeqsUpTo({Comment}, MaxComments),
     dt \in {<<>>} \cup {<<d>> : d \in Doctypes},
     mid \in SeqsUpTo({Comment}, MaxComments)}

\* mutant: XHTML 1.1 is not looked for
MarkerOf_NoXhtml11(val) ==
  IF Contains(val, "HTML 4.01") THEN "HTML 4.01"
  ELSE IF Contains(val, "XHTML 1.0") THEN "XHTML 1.0"
  ELSE ""

\* detectHTMLVersion: the version a doctype attribute's value names
MarkerOf(val) ==
  IF Contains(val, "HTML 4.01") THEN "HTML 4.01"
  ELSE IF Contains(val, "XHTML 1.0") THEN "XHTML 1.0"
  ELSE IF Contains(val, "XHTML 1.1") THEN "XHTML 1.1"
  ELSE ""

RECURSIVE FirstMarker(_)
\* for _, attr := range n.Attr: the first attribute that names a version
FirstMarker(attrs) ==
  IF attrs = <<>> THEN ""
  ELSE IF MarkerOf(Head(attrs).val) # "" THEN MarkerOf(Head(attrs).val)
  ELSE FirstMarker(Tail(attrs))

RECURSIVE detectHTMLVersion(_), FirstVersion(_)
\* detectHTMLVersion / detectHTMLVersionMulti
detectHTMLVersion(n) ==
  LET own == IF n.type # "doctype" THEN ""
             ELSE IF n.attr = <<>> THEN "HTML5"
             ELSE FirstMarker(n.attr)
      below == FirstVersion(n.children) IN
    IF own # "" THEN own
    ELSE IF below # "" THEN below
    ELSE "HTML5 (assumed)"

\* for c := n.FirstChild; ...: the first child whose version is not ""
FirstVersion(cs) ==
  IF cs = <<>> THEN ""
  ELSE IF detectHTMLVersion(Head(cs)) # "" THEN detectHTMLVersion(Head(cs))
  ELSE FirstVersion(Tail(cs))

RECURSIVE Preorder(_), PreorderAll(_)
\* the nodes of a tree in the order processNode / searchInputs visits them
Preorder(n) == <<n>> \o PreorderAll(n.children)

PreorderAll(ns) ==
  IF ns = <<>> THEN <<>> ELSE Preorder(Head(ns)) \o PreorderAll(Tail(ns))

\* the value of the last attribute with one of these keys ("" when none):
\* each such attribute overwrites what the loop has read before
LastVal(attrs, keys) ==
  LET at == {i \in 1..Len(attrs) : attrs[i].key \in keys} IN
    IF at = {} THEN <<>>
    ELSE attrs[CHOOSE i \in at : \A j \in at : j <= i].val

\* detectLoginForm: the form's id, name or class names a login
FormAttrSaysLogin(attrs) ==
  \E i \in 1..Len(attrs) :
     /\ attrs[i].key \in {"id", "name", "class"}
     /\ LET val == ToLower(attrs[i].val) IN
          Contains(val, "login") \/ Contains(val, "signin")
          \/ Contains(val, "log-in") \/ Contains(val, "sign-in")

\* searchInputs on one node: inputType == "password"
IsPasswordInput(node) ==
  /\ node.type = "element" /\ node.data = "input"
  /\ LastVal(node.attr, {"type"}) = <<"password">>

\* searchInputs on one node: a text or email input whose inputName names a user
IsUsernameInput(node) ==
  /\ node.type = "element" /\ node.data = "input"
  /\ LastVal(node.attr, {"type"}) \in {<<"text">>, <<"email">>}
  /\ LET inputName == ToLower(LastVal(node.attr, {"name", "id"})) IN
       Contains(inputName, "user") \/ Contains(inputName, "email")
       \/ Contains(inputName, "login") \/ Contains(inputName, "name")

\* detectLoginForm / detectLoginFormMulti
detectLoginForm(n) ==
  \/ FormAttrSaysLogin(n.attr)
  \/ LET nodes == Preorder(n) IN
       /\ \E i \in 1..Len(nodes) : IsPasswordInput(nodes[i])
       /\ \E i \in 1..Len(nodes) : IsUsernameInput(nodes[i])

\* The attribute lists of the forms tried.
FormAttrLists == {<<>>,
                  <<Attr("id", <<"Login">>)>>,
                  <<Attr("class", <<"sign-in", "-form">>)>>,
                  <<Attr("action", <<"/", "login">>)>>,
                  <<Attr("id", <<"contact">>)>>}

\* The inputs tried: a password field, user fields named by name, by id, by
\* both in either order, a search field, and a field without a type.
Inputs == {Element("input", <<Attr("type", <<"password">>), Attr("name", <<"pass", "word">>)>>, <<>>),
           Element("input", <<Attr("type", <<"text">>), Attr("name", <<"user", "name">>)>>, <<>>),
           Element("input", <<Attr("type", <<"email">>), Attr("id", <<"Email">>)>>, <<>>),
           Element("input", <<Attr("type", <<"text">>), Attr("name", <<"user", "name">>),
                              Attr("id", <<"field1">>)>>, <<>>),
           Element("input", <<Attr("id", <<"field1">>), Attr("type", <<"text">>),
                              Attr("name", <<"login">>)>>, <<>>),
           Element("input", <<Attr("type", <<"text">>), Attr("name", <<"q">>)>>, <<>>),
           Element("input", <<Attr("name", <<"user", "name">>)>>, <<>>)}

\* a form with these attributes and inputs, the inputs its children or the
\* children of a div in it
Forms ==
  {Element("form", fa, ins) : fa \in FormAttrLists, ins \in SeqsUpTo(Inputs, MaxInputs)}
  \cup {Element("form", fa, <<Element("div", <<>>, ins)>>) :
          fa \in FormAttrLists, ins \in SeqsUpTo(Inputs, MaxInputs)}

PageWith(bodyNodes) ==
  Document(<<Doctype(<<>>), Element("html", <<>>, <<Element("body", <<>>, bodyNodes)>>)>>)

\* pages of one form
LoginDocs == {PageWith(<<f>>) : f \in Forms}

\* The forms of the pages of several forms: a login form by its id, one by
\* its inputs, a search form and a contact form.
WalkForms == {Element("form", <<Attr("id", <<"Login">>)>>, <<>>),
              Element("form", <<>>, <<Element("input", <<Attr("type", <<"password">>)>>, <<>>),
                                      Element("input", <<Attr("type", <<"email">>),
                                                         Attr("name", <<"email">>)>>, <<>>)>>),
              Element("form", <<>>, <<Element("input", <<Attr("type", <<"text">>),
                                                         Attr("name", <<"q">>)>>, <<>>)>>),
              Element("form", <<Attr("id", <<"contact">>)>>, <<>>)}

WalkDocs == {PageWith(fs) : fs \in SeqsUpTo(WalkForms, MaxForms)}

\* a text node
Text(data) == Node("text", data, <<>>, <<>>)

\* title elements: with a text, with another text, and empty
Titles == {Element("title", <<>>, <<Text("First")>>),
           Element("title", <<>>, <<Text("Second")>>),
           Element("title", <<>>, <<>>)}

\* pages with several title elements in their head
TitleDocs ==
  {Document(<<Doctype(<<>>),
              Element("html", <<>>, <<Element("head", <<>>, ts), Element("body", <<>>, <<>>)>>)>>) :
     ts \in SeqsUpTo(Titles, MaxTitles)}

Documents == VersionDocs \cup LoginDocs \cup WalkDocs \cup TitleDocs

\* The batch is not running.
BatchIdle ==
  /\ urls = <<>>
  /\ maxWorkers = 1
  /\ semSize = SemaphoreSize(DefaultMaxMemoryMB)
  /\ semCur = 0
  /\ tokens = LimiterBurst
  /\ workerCh = <<>>
  /\ workerChClosed = FALSE
  /\ resultChan = <<>>
  /\ errorChan = <<>>
  /\ chansClosed = FALSE
  /\ wg = 0
  /\ feederIdx = 0
  /\ closerPc = "idle"
  /\ wPc = [w \in 1..maxWorkers |-> "none"]
  /\ wUrl = [w \in 1..maxWorkers |-> 0]
  /\ wHeld = [w \in 1..maxWorkers |-> 0]
  /\ mainPc = "idle"
  /\ results = <<>>
  /\ errs = <<>>
  /\ retErr = Nil
  /\ analysed = <<>>

\* analyzeDocument is handed a parsed tree.
InitDoc ==
  /\ ctxDone = FALSE
  /\ BatchIdle
  /\ PageIdle
  /\ doc \in Documents
  /\ dPc = "version"
  /\ htmlVersion = ""
  /\ hasLoginForm = FALSE
  /\ walkTodo = <<>>
  /\ formsEvaluated = <<>>
  /\ title = ""
  /\ ApiIdle
  /\ ErrIdle

\* analysis.HTMLVersion = a.detectHTMLVersion(n); processNode(n) comes next
DocDetectVersion ==
  /\ dPc = "version"
  /\ htmlVersion' = detectHTMLVersion(doc)
  /\ walkTodo' = Preorder(doc)
  /\ dPc' = "walk"
  /\ UNCHANGED <<ctxDone, bvars, pvars, given, avars, evars, doc, hasLoginForm, formsEvaluated, title>>

\* mutant: every form is evaluated
ShouldEvaluateForm_Always(has) == TRUE

\* if !analysis.HasLoginForm
ShouldEvaluateForm(has) == ~has

\* case "title": the text the node gives the title, or the title as it was
TitleAfter(n, was) ==
  IF n.type = "element" /\ n.data = "title" /\ n.children # <<>> /\ n.children[1].type = "text"
  THEN n.children[1].data
  ELSE was

\* processNode on the next node: case "title", case "form"
DocVisit ==
  /\ dPc = "walk"
  /\ walkTodo # <<>>
  /\ walkTodo' = Tail(walkTodo)
  /\ LET n == Head(walkTodo) IN
       IF n.type = "element" /\ n.data = "form" /\ ShouldEvaluateForm(hasLoginForm)
       THEN /\ hasLoginForm' = detectLoginForm(n)
            /\ formsEvaluated' = Append(formsEvaluated, n)
       ELSE UNCHANGED <<hasLoginForm, formsEvaluated>>
  /\ title' = TitleAfter(Head(walkTodo), title)
  /\ UNCHANGED <<ctxDone, bvars, pvars, given, avars, evars, doc, dPc, htmlVersion>>

\* processNode(n) has returned
DocWalkDone ==
  /\ dPc = "walk"
  /\ walkTodo = <<>>
  /\ dPc' = "done"
  /\ UNCHANGED <<ctxDone, bvars, pvars, given, avars, evars, doc, htmlVersion, hasLoginForm,
                 walkTodo, formsEvaluated, title>>

NextDoc == DocDetectVersion \/ DocVisit \/ DocWalkDone

SpecDoc == InitDoc /\ [][NextDoc]_vars

(* ------------------- the API server and its collections ---------------- *)
\* the ObjectIDs the server hands out in one run
MaxOids == 3
\* the hours the clock runs
MaxClock == 2

\* time.Hour, in hours
Hour == 1

\* the UserInfo of the tokens Authenticate() accepts: two regular users and
\* an administrator
Users == {[sub |-> "alice", roles |-> {"user"}],
          [sub |-> "bob", roles |-> {"user"}],
          [sub |-> "root", roles |-> {"user", "admin"}]}

\* the analysis collection the repository is connected to: an analysis that
\* belongs to alice and one without user_id
AnalysisCollection == {[id |-> "a1", url |-> "https://a/", userID |-> "alice"],
                       [id |-> "a2", url |-> "https://b/", userID |-> ""]}

\* the :id parameters tried: the two stored analyses, an ObjectID that is not
\* stored, and a string that is no ObjectID
RequestIds == {"a1", "a2", "a9", "zz"}

\* no document / nil
NoDoc == [id |-> "nil"]

\* primitive.ObjectIDFromHex(id) succeeds
IsObjectID(id) == id # "zz"

\* r.collection.FindOne(ctx, bson.M{"_id": objectID}): (nil, err) for a bad
\* id, (nil, nil) when nothing is found
GetAnalysis(id) ==
  IF ~IsObjectID(id) THEN [err |-> TRUE, doc |-> NoDoc]
  ELSE IF \E a \in AnalysisCollection : a.id = id
       THEN [err |-> FALSE, doc |-> CHOOSE a \in AnalysisCollection : a.id = id]
       ELSE [err |-> FALSE, doc |-> NoDoc]

\* r.deepCollection.FindOne(ctx, bson.M{"analysis_id": objectID})
GetDeepAnalysis(store, id) ==
  IF ~IsObjectID(id) THEN [err |-> TRUE, doc |-> NoDoc]
  ELSE IF \E d \in store : d.analysisID = id
       THEN [err |-> FALSE, doc |-> CHOOSE d \in store : d.analysisID = id]
       ELSE [err |-> FALSE, doc |-> NoDoc]

\* r.collection.Find(ctx, bson.M{}, sort by created_at, limit): the
\* collection has fewer documents than the smallest limit in use (10)
GetRecentAnalyses == AnalysisCollection

\* for _, role := range ui.RealmAccess.Roles { if role == "admin" ... }
IsAdmin(u) == "admin" \in u.roles

\* mutant: the stored document is never taken for recent
IsRecent_Never(d, t) == FALSE

\* time.Since(deepAnalysis.CreatedAt) < time.Hour
IsRecent(d, t) == t - d.createdAt < Hour

\* mutant: the analysis_id index is not unique
UniqueIndexAdmits_Any(store, d) == TRUE

\* the unique index on analysis_id of the deep collection admits the insert
UniqueIndexAdmits(store, d) == ~\E x \in store : x.analysisID = d.analysisID

\* a request as it arrives at its handler, past Authenticate()
Arrived(kind, user, id) ==
  [pc |-> kind, kind |-> kind, user |-> user, id |-> id, analysis |-> NoDoc,
   deep |-> NoDoc, readAt |-> 0, result |-> NoDoc, matched |-> FALSE, status |-> 0,
   body |-> {}, fetched |-> FALSE, saveCalled |-> FALSE, left |-> NoDoc]

\* c.JSON(status, body); return
Respond(q, status, body) == [q EXCEPT !.pc = "done", !.status = status, !.body = body]

\* the routes behind Authenticate() that serve analyses
Routes == {"get", "deep", "recent"}

\* A request with a valid token arrives on a free connection.
ApiBegin(r, routes, users) ==
  /\ req[r].pc \in {"idle", "done"}
  /\ \E kind \in routes, user \in users, id \in RequestIds :
       /\ kind = "recent" => id = "a1"
       /\ req' = [req EXCEPT ![r] = Arrived(kind, user, id)]
  /\ UNCHANGED <<ctxDone, bvars, pvars, given, dvars, evars, deepStore, now, nextOid>>

\* getAnalysisHandler: 500, 404, 403 for another user's analysis, else 200
getAnalysisHandler(r) ==
  /\ req[r].pc = "get"
  /\ LET q == req[r]
         got == GetAnalysis(q.id) IN
       req' = [req EXCEPT ![r] =
                 IF got.err THEN Respond(q, 500, {})
                 ELSE IF got.doc = NoDoc THEN Respond(q, 404, {})
                 ELSE IF ~IsAdmin(q.user) /\ got.doc.userID # "" /\ got.doc.userID # q.user.sub
                      THEN Respond(q, 403, {})
                 ELSE Respond([q EXCEPT !.analysis = got.doc], 200, {got.doc})]
  /\ UNCHANGED <<ctxDone, bvars, pvars, given, dvars, evars, deepStore, now, nextOid>>

\* getRecentAnalysesHandler: both branches call GetRecentAnalyses
getRecentAnalysesHandler(r) ==
  /\ req[r].pc = "recent"
  /\ LET q == req[r]
         found == IF IsAdmin(q.user) THEN GetRecentAnalyses ELSE GetRecentAnalyses IN
       req' = [req EXCEPT ![r] = Respond(q, 200, found)]
  /\ UNCHANGED <<ctxDone, bvars, pvars, given, dvars, evars, deepStore, now, nextOid>>

\* deepAnalysisHandler: s.repo.GetAnalysis(ctx, id); the permission check that
\* follows is commented out
DeepGetAnalysis(r) ==
  /\ req[r].pc = "deep"
  /\ LET q == req[r]
         got == GetAnalysis(q.id) IN
       req' = [req EXCEPT ![r] =
                 IF got.err THEN Respond(q, 500, {})
                 ELSE IF got.doc = NoDoc THEN Respond(q, 404, {})
                 ELSE [q EXCEPT !.pc = "cached", !.analysis = got.doc]]
  /\ UNCHANGED <<ctxDone, bvars, pvars, given, dvars, evars, deepStore, now, nextOid>>

\* deepAnalysisHandler: s.repo.GetDeepAnalysis(ctx, id); a recent document is
\* returned as it is
DeepGetDeep(r) ==
  /\ req[r].pc = "cached"
  /\ LET q == req[r]
         got == GetDeepAnalysis(deepStore, q.id)
         seen == [q EXCEPT !.deep = got.doc, !.readAt = now] IN
       req' = [req EXCEPT ![r] =
                 IF got.err THEN Respond(q, 500, {})
                 ELSE IF got.doc # NoDoc /\ IsRecent(got.doc, now)
                      THEN Respond(seen, 200, {got.doc})
                 ELSE [seen EXCEPT !.pc = "perform"]]
  /\ UNCHANGED <<ctxDone, bvars, pvars, given, dvars, evars, deepStore, now, nextOid>>

\* performDeepAnalysis (FetchPage works or fails), then ID, AnalysisID and
\* CreatedAt are set on the result
DeepPerform(r) ==
  /\ req[r].pc = "perform"
  /\ nextOid <= MaxOids
  /\ \E fetchOK \in BOOLEAN :
       LET q == [req[r] EXCEPT !.fetched = TRUE] IN
         IF fetchOK
         THEN /\ req' = [req EXCEPT ![r] =
                           [q EXCEPT !.pc = "save",
                                     !.result = [oid |-> nextOid, analysisID |-> q.analysis.id,
                                                 url |-> q.analysis.url, createdAt |-> now]]]
              /\ nextOid' = nextOid + 1
         ELSE /\ req' = [req EXCEPT ![r] = Respond(q, 500, {})]
              /\ UNCHANGED nextOid
  /\ UNCHANGED <<ctxDone, bvars, pvars, given, dvars, evars, deepStore, now>>

\* SaveDeepAnalysis: UpdateOne with upsert looks for a document with the
\* result's analysis_id ...
DeepSaveMatch(r) ==
  /\ req[r].pc = "save"
  /\ LET q == req[r] IN
       req' = [req EXCEPT ![r] =
                 [q EXCEPT !.pc = "apply", !.saveCalled = TRUE,
                           !.matched = \E d \in deepStore : d.analysisID = q.result.analysisID]]
  /\ UNCHANGED <<ctxDone, bvars, pvars, given, dvars, evars, deepStore, now, nextOid>>

\* what the upsert leaves in the collection: $set on a matched document names
\* _id, which the server refuses to change; an insert has to pass the unique
\* index. Either error is only logged.
Upsert(store, matched, d) ==
  IF matched
  THEN IF \E x \in store : x.analysisID = d.analysisID /\ x.oid = d.oid
       THEN {x \in store : x.analysisID # d.analysisID} \cup {d}
       ELSE store
  ELSE IF UniqueIndexAdmits(store, d) THEN store \cup {d} ELSE store

\* ... and updates it or inserts the result; the handler answers 200 with the
\* result whatever SaveDeepAnalysis returned
DeepSaveApply(r) ==
  /\ req[r].pc = "apply"
  /\ LET q == req[r]
         after == Upsert(deepStore, q.matched, q.result) IN
       /\ deepStore' = after
       /\ req' = [req EXCEPT ![r] =
                    Respond([q EXCEPT !.left = GetDeepAnalysis(after, q.id).doc],
                            200, {q.result})]
  /\ UNCHANGED <<ctxDone, bvars, pvars, given, dvars, evars, now, nextOid>>

\* An hour passes.
Tick ==
  /\ now < MaxClock
  /\ now' = now + 1
  /\ UNCHANGED <<ctxDone, bvars, pvars, given, dvars, evars, req, deepStore, nextOid>>

InitApi ==
  /\ ctxDone = FALSE
  /\ BatchIdle
  /\ PageIdle
  /\ DocIdle
  /\ ErrIdle
  /\ ApiIdle

\* one client after another: every route, every user
NextApi ==
  \/ ApiBegin(1, Routes, Users)
  \/ getAnalysisHandler(1)
  \/ getRecentAnalysesHandler(1)
  \/ DeepGetAnalysis(1)
  \/ DeepGetDeep(1)
  \/ DeepPerform(1)
  \/ DeepSaveMatch(1)
  \/ DeepSaveApply(1)
  \/ Tick

SpecApi == InitApi /\ [][NextApi]_vars

\* the user sending the concurrent deep analysis requests (the handler does
\* not look at the user)
DeepUsers == {u \in Users : u.sub = "bob"}

\* deep analysis requests on all connections at once
NextDeep ==
  \/ \E r \in Requests : ApiBegin(r, {"deep"}, DeepUsers)
  \/ \E r \in Requests : DeepGetAnalysis(r)
  \/ \E r \in Requests : DeepGetDeep(r)
  \/ \E r \in Requests : DeepPerform(r)
  \/ \E r \in Requests : DeepSaveMatch(r)
  \/ \E r \in Requests : DeepSaveApply(r)
  \/ Tick

SpecDeep == InitApi /\ [][NextDeep]_vars

(* ------------------ the error AnalyzeURLs returns ---------------------- *)
\* the errors a batch collects at most
MaxErrors == 6

\* the messages of the errors the workers report: "error analyzing <url>:
\* <cause>", for a URL without and with a percent-encoded character
ErrorTexts == {[text |-> <<"error analyzing https://a/p: ", "HTTP error: 404">>],
               [text |-> <<"error analyzing https://a/x", "%2F", "y: ", "HTTP error: 404">>]}

\* errorMsg has not been built yet
Pending == [kind |-> "pending", cause |-> "nil"]

\* errorChan has been drained into errs
InitErrors ==
  /\ ctxDone = FALSE
  /\ BatchIdle
  /\ PageIdle
  /\ DocIdle
  /\ ApiIdle
  /\ failed \in SeqsUpTo(ErrorTexts, MaxErrors)
  /\ combined = Pending

\* if len(errs) > 0 { ... return results, fmt.Errorf(errorMsg) }; return results, nil
CombineCollected ==
  /\ combined = Pending
  /\ combined' = CombineErrors(failed)
  /\ UNCHANGED <<ctxDone, bvars, pvars, given, avars, dvars, failed>>

NextErrors == CombineCollected

SpecErrors == InitErrors /\ [][NextErrors]_vars

(* ----------------------- claims about AnalyzeURLs ---------------------- *)
\* A URL whose analysis fails although nobody cancels: the fetch fails, the
\* status is not 200, or the body cannot be read.
FailsUncancelled(in) ==
  ~(in.valid /\ in.reqOK /\ in.transport = "ok" /\ in.status = "200" /\ in.bodyOK)

FailingUrls == {i \in 1..Len(urls) : FailsUncancelled(urls[i])}

\* C1: once the context is cancelled (or its deadline has passed), AnalyzeURLs
\* eventually returns to its caller; it never blocks for ever.
C1_CancelledCallReturns == ctxDone ~> (mainPc = "returned")

\* C2: with a context that is never cancelled, a batch of K URLs of which J
\* fail returns exactly K-J results (those of the URLs that did not fail) and
\* reports exactly J errors, and every URL of the list was analysed.
C2_BatchCounts ==
  (mainPc = "returned" /\ ~ctxDone) =>
     /\ Len(results) = Len(urls) - Cardinality(FailingUrls)
     /\ {results[k].url : k \in 1..Len(results)} = (1..Len(urls)) \ FailingUrls
     /\ (IF retErr = Nil THEN 0 ELSE retErr.total) = Cardinality(FailingUrls)
     /\ \A i \in 1..Len(urls) : analysed[i] = 1

\* a batch of two URLs, one failing and one succeeding, has returned uncancelled
C2_Witness ==
  /\ mainPc = "returned" /\ ~ctxDone
  /\ Len(urls) = 2 /\ Cardinality(FailingUrls) = 1 /\ Len(results) = 1

\* C5: without the context being cancelled, AnalyzeURLs eventually returns,
\* whatever the URL list and the worker/memory configuration.
C5_ReturnsWithoutCancel == <>(ctxDone \/ mainPc = "returned")

Finished == pPc \in {"returned", "done"}

\* the link was probed and its probe found it inaccessible
ProbedInaccessible(l) ==
  /\ probeOutcome[l] # NoProbe
  /\ ~(~probeOutcome[l].err /\ probeOutcome[l].status \in 200..399)

\* C3 (for AnalyzeURL): when the analysis returns, each bucket's Inaccessible
\* is the number of the bucket's links whose probe was inaccessible.
C3_TalliesExact ==
  (mode \in {"handler", "direct"} /\ Finished /\ pErr = Nil) =>
     /\ pResult.internal[2] = Cardinality({l \in internalLinks : ProbedInaccessible(l)})
     /\ pResult.external[2] = Cardinality({l \in externalLinks : ProbedInaccessible(l)})

\* C4: every link recorded in a link-count bucket has been probed when the
\* analysis returns its result.
C4_EveryCountedLinkProbed ==
  (mode \in {"handler", "direct", "multi"} /\ Finished /\ pErr = Nil) =>
     \A l \in internalLinks \cup externalLinks : probeOutcome[l] # NoProbe

\* C6: a context cancelled after the primary fetch succeeded, with link
\* probes outstanding, makes AnalyzeURL return an error and no result, and the
\* analyze handler does not call SaveAnalysis.
C6_CancelDuringProbesIsAnError ==
  (mode = "handler" /\ pPc = "done" /\ cancelAt.pc \in {"walk", "wait"} /\ cancelAt.probing) =>
     /\ pErr # Nil
     /\ pResult = NoResult
     /\ saveCalls = 0

\* the context was cancelled before AnalyzeURL did anything
CancelledAtCall == mode \in {"handler", "direct"} /\ cancelAt.pc = "fetch" /\ Finished

NoProbeIssued == \A l \in AllLinks : gPc[l] = "none" /\ probeOutcome[l] = NoProbe

\* C7 (as stated): called with a cancelled context, AnalyzeURL returns no
\* result and an error that reports the cancellation, probes no link, and
\* nothing is persisted.
C7_CancelledCallReportsCancellation ==
  CancelledAtCall =>
     /\ pResult = NoResult
     /\ pErr # Nil /\ pErr.cause = "context canceled"
     /\ NoProbeIssued
     /\ saved = <<>>

\* C7 (amended): called with a cancelled context, AnalyzeURL returns no result
\* and a non-nil error, probes no link, and nothing is persisted; the error
\* reports the cancellation when the URL parses and the request can be built,
\* which are checked first.
C7_CancelledCallFails ==
  CancelledAtCall =>
     /\ pResult = NoResult
     /\ pErr # Nil
     /\ (pin.valid /\ pin.reqOK) => pErr = Err("failed to fetch URL", "context canceled")
     /\ ~pin.valid => pErr.kind = "invalid URL"
     /\ NoProbeIssued
     /\ saved = <<>> /\ saveCalls = 0

\* the handler finished a request whose context was cancelled from the start,
\* for a page that has links and that would have been served
C7_Witness ==
  /\ mode = "handler" /\ pPc = "done" /\ cancelAt.pc = "fetch"
  /\ pin.valid /\ pin.reqOK /\ pin.transport = "ok" /\ pin.status = "200"
  /\ pErr.cause = "context canceled"
  /\ \E i \in 1..Len(anchors) : ~SkippedHref(anchors[i])

\* the primary fetch fails: invalid URL, request construction, transport
\* error or timeout, or a status other than 200
PrimaryFetchFails(in) ==
  ~in.valid \/ ~in.reqOK \/ in.transport # "ok" \/ in.status # "200"

\* C9: when the primary fetch fails, AnalyzeURL, analyzeURLMulti and FetchPage
\* return no result and a non-nil error, no link probe is ever started, and
\* the handlers leave the persistence layer unchanged.
C9_FetchFailureIsAnError ==
  PrimaryFetchFails(pin) =>
     /\ NoProbeIssued /\ linkCh = <<>> /\ dropped = {}
     /\ saved = <<>> /\ saveCalls = 0
     /\ Finished => (pResult = NoResult /\ pErr # Nil)

\* the analyze handler finished, uncancelled, a request for a page with links
\* that the server answered with 404
C9_Witness ==
  /\ mode = "handler" /\ pPc = "done" /\ ~ctxDone
  /\ pin.valid /\ pin.reqOK /\ pin.transport = "ok" /\ pin.status = "404"
  /\ \E i \in 1..Len(anchors) : ~SkippedHref(anchors[i])

\* C10: a finished probe left its link untallied iff the HEAD request
\* yielded a status in 200..399; every other outcome ran the inaccessible
\* increment, and an analysis that issued probes returns without an error.
C10_ProbeFailuresAreAbsorbed ==
  /\ \A l \in AllLinks :
        gPc[l] = "done" =>
           (tallied[l] <=> ~(~probeOutcome[l].err /\ probeOutcome[l].status \in 200..399))
  /\ (Finished /\ \E l \in AllLinks : probeOutcome[l] # NoProbe) =>
        (pErr = Nil /\ pResult # NoResult)

\* an uncancelled analysis returned a result after one probe met a transport
\* error and another a status 400
C10_Witness ==
  /\ Finished /\ ~ctxDone /\ pErr = Nil
  /\ \E l \in AllLinks : gPc[l] = "done" /\ probeOutcome[l].err
  /\ \E l \in AllLinks : gPc[l] = "done" /\ probeOutcome[l] = [err |-> FALSE, status |-> 400]

(* ------------------------ claims about link counting ------------------- *)
\* the analysis returned a result after a complete tree walk (the batch
\* analyzer's processNode stops visiting nodes once the context is done)
WalkedAndReturned ==
  /\ mode \in {"handler", "direct", "multi"}
  /\ Finished /\ pErr = Nil
  /\ ~(mode = "multi" /\ ctxDone)

\* the page's hrefs that are non-empty, not fragment-only and parseable
CountableHrefs == {h \in {hrefs[i] : i \in 1..Len(hrefs)} : h.kind \in {"rel", "abs"}}

\* C11: InternalLinks.Count + ExternalLinks.Count is the number of distinct
\* URLs the page's non-empty, non-fragment, parseable hrefs resolve to, however
\* often an href or a URL occurs, and no URL is counted in both buckets.
C11_CountsAreDistinctResolvedURLs ==
  WalkedAndReturned =>
     /\ pResult.internal[1] + pResult.external[1]
          = Cardinality({ResolveReference(BaseURL, h) : h \in CountableHrefs})
     /\ pResult.internal[1] = Cardinality(internalLinks)
     /\ pResult.external[1] = Cardinality(externalLinks)
     /\ internalLinks \cap externalLinks = {}

\* a page whose two anchors are different hrefs of one URL, after a skipped
\* href or not, was analysed and one link was counted
C11_Witness ==
  /\ WalkedAndReturned /\ rawURL = WithScheme
  /\ hrefs = <<[kind |-> "rel", host |-> <<>>, path |-> <<"/p">>],
               [kind |-> "abs", host |-> <<"a">>, path |-> <<"/p">>]>>
  /\ pResult.internal[1] = 1 /\ pResult.external[1] = 0

\* C12: a recorded link is in the internal bucket iff the host of its
\* resolved URL equals the base URL's host; at the end of a complete walk
\* every resolved link is recorded, one of another host (its www-variant
\* included) as external.
C12_InternalIffSameHost ==
  /\ \A l \in internalLinks : HostOf(l).host = BaseURL.host
  /\ \A l \in externalLinks : HostOf(l).host # BaseURL.host
  /\ WalkedAndReturned =>
        \A h \in CountableHrefs :
           LET u == ResolveReference(BaseURL, h) IN
             IF u.host = BaseURL.host THEN URLString(u) \in internalLinks
             ELSE URLString(u) \in externalLinks

\* a page of host a that links to itself and to host www.a was analysed
C12_Witness ==
  /\ WalkedAndReturned /\ rawURL = WithScheme
  /\ internalLinks = {<<"https://", "a", "/p">>}
  /\ externalLinks = {<<"https://", "www.", "a", "/">>}
  /\ pResult.external[1] = 1

\* the input URL with "https://" put in front when it has no scheme
Prefixed(raw) == IF ParseURL(raw).scheme = "" THEN <<"https://">> \o raw ELSE raw

\* the buckets an analysis of the page at this URL ends with (C11, C12)
BucketsFor(raw) ==
  LET base == DefaultScheme(ParseURL(raw))
      us == {ResolveReference(base, h) : h \in CountableHrefs} IN
    [internal |-> {URLString(u) : u \in {v \in us : v.host = base.host}},
     external |-> {URLString(u) : u \in {v \in us : v.host # base.host}}]

\* C13: AnalyzeURL on a URL without a scheme fetches the page that the URL
\* prefixed with "https://" names and ends with the buckets it ends with for
\* the prefixed URL: a link is internal iff its host is the host the page was
\* fetched from.
C13_MissingSchemeBehavesAsHttps ==
  (mode = "direct" /\ Finished /\ pErr = Nil) =>
     /\ URLString(BaseURL) = Prefixed(rawURL)
     /\ internalLinks = BucketsFor(Prefixed(rawURL)).internal
     /\ externalLinks = BucketsFor(Prefixed(rawURL)).external

(* ------------------------ claims about the parsed tree ----------------- *)
\* the doctype nodes of the tree, in document order
DoctypesOf(n) == SelectSeq(Preorder(n), LAMBDA x : x.type = "doctype")

\* the versions detectHTMLVersion knows by name
NamedVersions == {"HTML 4.01", "XHTML 1.0", "XHTML 1.1"}

\* every doctype of the tree has no attributes, or an attribute naming a version
OnlyKnownDoctypes(n) ==
  \A i \in 1..Len(DoctypesOf(n)) :
     LET d == DoctypesOf(n)[i] IN
       d.attr = <<>> \/ \E j \in 1..Len(d.attr) : \E v \in NamedVersions : Contains(d.attr[j].val, v)

\* C14: the version is "HTML5 (assumed)" iff the tree has no doctype node, and
\* "HTML5" when the first doctype of the tree has no attributes, whatever
\* nodes precede it.
C14_VersionFollowsFirstDoctype ==
  (dPc \in {"walk", "done"} /\ OnlyKnownDoctypes(doc)) =>
     /\ (htmlVersion = "HTML5 (assumed)") <=> (DoctypesOf(doc) = <<>>)
     /\ (DoctypesOf(doc) # <<>> /\ DoctypesOf(doc)[1].attr = <<>>) => htmlVersion = "HTML5"

\* the tree begins with a doctype that has attributes, and the version is set
LeadingDoctypeWithAttrs ==
  /\ dPc \in {"walk", "done"}
  /\ doc.children # <<>>
  /\ doc.children[1].type = "doctype"
  /\ doc.children[1].attr # <<>>

\* C15 (as stated): a doctype with an attribute whose value contains
\* "HTML 4.01" yields exactly "HTML 4.01", likewise "XHTML 1.0" and
\* "XHTML 1.1", and a doctype with attributes never yields "HTML5".
C15_EveryNamedVersionIsDetected ==
  LeadingDoctypeWithAttrs =>
     /\ \A v \in NamedVersions :
           (\E j \in 1..Len(doc.children[1].attr) : Contains(doc.children[1].attr[j].val, v))
              => htmlVersion = v
     /\ htmlVersion # "HTML5"

\* C15 (amended): the first attribute of the doctype whose value names one of
\* the three versions decides; a doctype none of whose attributes names one
\* yields "HTML5 (assumed)", and a doctype with attributes never "HTML5".
C15_FirstNamingAttributeDecides ==
  LeadingDoctypeWithAttrs =>
     LET attrs == doc.children[1].attr
         naming == {j \in 1..Len(attrs) : \E v \in NamedVersions : Contains(attrs[j].val, v)} IN
       /\ naming = {} => htmlVersion = "HTML5 (assumed)"
       /\ naming # {} =>
             /\ htmlVersion \in NamedVersions
             /\ Contains(attrs[CHOOSE j \in naming : \A k \in naming : j <= k].val, htmlVersion)
       /\ htmlVersion # "HTML5"

\* the version of a doctype whose public identifier names XHTML 1.1 and whose
\* system identifier names HTML 4.01 was detected as XHTML 1.1
C15_Witness ==
  /\ LeadingDoctypeWithAttrs /\ dPc = "done"
  /\ Len(doc.children[1].attr) = 2
  /\ Contains(doc.children[1].attr[1].val, "XHTML 1.1")
  /\ Contains(doc.children[1].attr[2].val, "HTML 4.01")
  /\ htmlVersion = "XHTML 1.1"

\* the form elements of the tree, in document order
FormsOf(n) == SelectSeq(Preorder(n), LAMBDA x : x.type = "element" /\ x.data = "form")

\* the input elements of the subtree
InputsOf(n) == SelectSeq(Preorder(n), LAMBDA x : x.type = "element" /\ x.data = "input")

\* the rule as the claim words it: (a) an id, name or class of the form
\* contains login, signin, log-in or sign-in, or (b) the subtree has an input
\* of type password and an input of type text or email one of whose name and
\* id contains user, email, login or name, whatever the case of the letters
StatedLoginRule(f) ==
  \/ \E i \in 1..Len(f.attr) :
        /\ f.attr[i].key \in {"id", "name", "class"}
        /\ \E m \in {"login", "signin", "log-in", "sign-in"} : Contains(ToLower(f.attr[i].val), m)
  \/ /\ \E i \in 1..Len(InputsOf(f)) :
           \E a \in 1..Len(InputsOf(f)[i].attr) :
              InputsOf(f)[i].attr[a] = Attr("type", <<"password">>)
     /\ \E i \in 1..Len(InputsOf(f)) :
           LET at == InputsOf(f)[i].attr IN
             /\ \E a \in 1..Len(at) : at[a].key = "type" /\ at[a].val \in {<<"text">>, <<"email">>}
             /\ \E a \in 1..Len(at) :
                   /\ at[a].key \in {"name", "id"}
                   /\ \E m \in {"user", "email", "login", "name"} : Contains(ToLower(at[a].val), m)

\* C16: detectLoginForm on a form returns true iff the form satisfies the
\* stated rule (checked on the pages of one form, where HasLoginForm is what
\* detectLoginForm returned for that form).
C16_LoginFormRule ==
  (dPc = "done" /\ Len(FormsOf(doc)) = 1) =>
     (hasLoginForm <=> StatedLoginRule(FormsOf(doc)[1]))

\* C17: HasLoginForm is true iff a form evaluated so far satisfies the
\* heuristic, no form is evaluated after one that does, and at the end of the
\* walk it is true iff some form of the document satisfies the heuristic.
C17_HasLoginFormIffSomeForm ==
  /\ hasLoginForm <=> \E i \in 1..Len(formsEvaluated) : detectLoginForm(formsEvaluated[i])
  /\ \A i \in 1..(Len(formsEvaluated) - 1) : ~detectLoginForm(formsEvaluated[i])
  /\ dPc = "done" =>
        (hasLoginForm <=> \E i \in 1..Len(FormsOf(doc)) : detectLoginForm(FormsOf(doc)[i]))

\* a page of three forms was walked: the second form was found to be a login
\* form and the third was not evaluated
C17_Witness ==
  /\ dPc = "done" /\ hasLoginForm
  /\ Len(FormsOf(doc)) = 3 /\ Len(formsEvaluated) = 2
  /\ ~detectLoginForm(FormsOf(doc)[3])

(* ------------------- claims about the batch's governors ---------------- *)
\* tokens taken from the limiter since the analyzer was built (no token is
\* added while a page is analysed)
TokensTaken == LimiterBurst - tokens

\* HEAD requests issued for the page's links
ProbesIssued == Cardinality({l \in AllLinks : probeOutcome[l] # NoProbe})

\* C18: in the batch analyzer a link probe is issued only after a token was
\* taken from the rate limiter for it: no more probes are issued than tokens
\* were taken.
C18_EveryProbeTakesAToken ==
  mode = "multi" => ProbesIssued <= TokensTaken

RECURSIVE SumOver(_, _)
SumOver(f, S) ==
  IF S = {} THEN 0
  ELSE LET x == CHOOSE y \in S : TRUE IN f[x] + SumOver(f, S \ {x})

\* the worker's analyzeURLMulti has been admitted by the semaphore and has not
\* returned
Admitted(w) == wPc[w] \in {"read", "analyze"}

\* the estimate as stated, content length x 5 with 1 MiB when the length is
\* unknown, as a number of five limbs: nothing is lost
StatedEstimate(in) ==
  LET x == IF NonPositive(in.contentLength) THEN Int64(1048576) ELSE in.contentLength
      p1 == x[1] * 5
      p2 == x[2] * 5 + p1 \div Limb
      p3 == x[3] * 5 + p2 \div Limb
      p4 == x[4] * 5 + p3 \div Limb IN
    <<p1 % Limb, p2 % Limb, p3 % Limb, p4 % Limb, p4 \div Limb>>

\* C19: what an admitted page holds from the semaphore is its estimate; these
\* add up to what the semaphore has handed out, which never exceeds the
\* budget; a page that has left analyzeURLMulti holds nothing, and nothing is
\* held once AnalyzeURLs has returned.
C19_MemoryWithinBudget ==
  /\ \A w \in Workers :
        IF Admitted(w) THEN Int64(wHeld[w]) \o <<0>> = StatedEstimate(urls[wUrl[w]])
        ELSE wHeld[w] = 0
  /\ semCur = SumOver(wHeld, Workers)
  /\ semCur <= semSize
  /\ mainPc = "returned" => semCur = 0

\* the workers between dequeuing a URL and reporting its outcome
InFlight == {w \in Workers : wPc[w] \in {"wait", "fetch", "acquire", "read", "analyze"}}

\* C20: at most MaxConcurrentRequests analyses are in flight, no two of them
\* for the same entry of the list, and no entry is analysed more than once.
C20_BoundedConcurrency ==
  /\ Cardinality(InFlight) <= maxWorkers
  /\ \A w1, w2 \in InFlight : w1 # w2 => wUrl[w1] # wUrl[w2]
  /\ \A i \in 1..Len(urls) : analysed[i] <= 1

\* with one worker and two URLs, one analysis is in flight while the other
\* URL waits in the queue
C20_Witness ==
  /\ maxWorkers = 1 /\ Len(urls) = 2
  /\ wPc[1] = "read"
  /\ workerCh = <<2>>
  /\ analysed = <<1, 0>>

(* ------------------------------- C21 ----------------------------------- *)
\* the probes in flight: HEAD requests issued and not yet answered
ProbesInFlight == {l \in AllLinks : gPc[l] = "probe"}

\* C21: during one page analysis, by the single-page analyzer as by the batch
\* analyzer, no more probes are in flight at a time than the pool has checkers,
\* however many links the page has.
C21_ProbesInFlightWithinPool ==
  mode \in {"handler", "direct", "multi"} => Cardinality(ProbesInFlight) <= MaxLinkCheckers

(* ------------------------------- C22 ----------------------------------- *)
\* the request found a deep analysis stored for its id, less than one hour old
FoundRecent(q) ==
  q.pc # "idle" /\ q.kind = "deep" /\ q.deep # NoDoc /\ q.readAt - q.deep.createdAt < Hour

\* C22: a deep analysis request that finds a stored deep analysis for its id
\* that is less than one hour old answers 200 with exactly that document, and
\* neither fetches the page nor calls SaveDeepAnalysis.
C22_RecentDeepAnalysisIsServed ==
  \A r \in Requests :
    FoundRecent(req[r]) =>
      /\ req[r].pc = "done"
      /\ req[r].status = 200
      /\ req[r].body = {req[r].deep}
      /\ ~req[r].fetched
      /\ ~req[r].saveCalled

\* a request has been served from the store
C22_Witness ==
  \E r \in Requests : FoundRecent(req[r]) /\ req[r].pc = "done" /\ req[r].deep \in deepStore

(* ------------------------------- C23 ----------------------------------- *)
\* the request found no recent deep analysis, recomputed it and called
\* SaveDeepAnalysis with the result
Recomputed(q) ==
  q.pc = "done" /\ q.kind = "deep" /\ q.saveCalled /\ q.status = 200

\* C23: when a request has found the deep analysis of its id missing or at
\* least one hour old and has recomputed it, the store holds a new document
\* for that id afterwards (not none, and not the old one the request found),
\* so that the next request is served from the store.
C23_RecomputedResultIsStored ==
  \A r \in Requests :
    Recomputed(req[r]) => (req[r].left # NoDoc /\ req[r].left # req[r].deep)

(* ------------------------------- C24 ----------------------------------- *)
\* C24: whatever deep analysis requests have run, one after another or at
\* the same time, the deep collection holds at most one document per analysis
\* id, and each document carries the id of the analysis it was computed for.
C24_OneDeepDocumentPerAnalysis ==
  /\ \A d1, d2 \in deepStore : d1.analysisID = d2.analysisID => d1 = d2
  /\ \A d \in deepStore : \E a \in AnalysisCollection : a.id = d.analysisID /\ a.url = d.url

\* two requests have recomputed the deep analysis of the same id at the same
\* time, and one document is stored for it
C24_Witness ==
  \E r1, r2 \in Requests :
    /\ Recomputed(req[r1]) /\ Recomputed(req[r2])
    /\ req[r1].id = req[r2].id
    /\ req[r1].result # req[r2].result
    /\ req[r1].deep = NoDoc /\ req[r2].deep = NoDoc
    /\ req[r1].result \in deepStore

(* ------------------------------- C30 ----------------------------------- *)
\* the user_id of the analysis a returned document is, or belongs to
OwnerOf(x) ==
  IF "analysisID" \in DOMAIN x
  THEN (CHOOSE a \in AnalysisCollection : a.id = x.analysisID).userID
  ELSE x.userID

\* C30: what getAnalysisHandler, deepAnalysisHandler and
\* getRecentAnalysesHandler return to a user who is not an administrator is
\* never an analysis, or the deep analysis of one, whose user_id is set to
\* another user.
C30_UsersSeeOnlyTheirOwn ==
  \A r \in Requests :
    (req[r].pc = "done" /\ req[r].status = 200 /\ ~IsAdmin(req[r].user)) =>
      \A x \in req[r].body : OwnerOf(x) \in {"", req[r].user.sub}

(* ------------------------------- C25 ----------------------------------- *)
\* C25: in the batch analyzer an inaccessible link is tallied in the bucket
\* it was counted in, and in every result returned neither bucket has more
\* inaccessible links than links (stated for a page URL that has a scheme).
C25_TalliedWhereCounted ==
  (mode = "multi" /\ rawURL = WithScheme) =>
    /\ \A l \in AllLinks : tallied[l] => (TalliedInternal(mode, l) <=> l \in internalLinks)
    /\ pResult # NoResult =>
         /\ pResult.internal[2] <= pResult.internal[1]
         /\ pResult.external[2] <= pResult.external[1]

(* ------------------------------- C26 ----------------------------------- *)
\* the analysis of a page whose URL has a scheme has returned a result and
\* nothing was cancelled
ReturnedUncancelled(m) ==
  mode = m /\ rawURL = WithScheme /\ Finished /\ pErr = Nil /\ ~ctxDone

\* the values AnalyzeURL can report as Inaccessible for a bucket, given the
\* probe outcomes: its unsynchronized ++ may lose updates, never all of them
SingleTallies(bucket) ==
  LET n == Cardinality({l \in bucket : ProbedInaccessible(l)}) IN
    IF n = 0 THEN {0} ELSE 1..n

\* what AnalyzeURL does with the page's links: every counted link is probed
\* and each bucket's Inaccessible comes from the bucket's own failed probes
AsAnalyzeURL ==
  /\ \A l \in internalLinks \cup externalLinks : probeOutcome[l] # NoProbe
  /\ pResult.internal[2] \in SingleTallies(internalLinks)
  /\ pResult.external[2] \in SingleTallies(externalLinks)

\* AnalyzeURL itself stays within that description
SingleIsAsAnalyzeURL == ReturnedUncancelled("direct") => AsAnalyzeURL

\* C26: for the same page, base URL and probe outcomes, and without
\* cancellation, the batch analyzer's link counts and inaccessible counts are
\* those the single-page analyzer produces, whatever the number of links.
C26_BatchAgreesWithSingle == ReturnedUncancelled("multi") => AsAnalyzeURL

(* ------------------------------- C27 ----------------------------------- *)
\* C27: when J >= 1 URLs failed, the error AnalyzeURLs returns states J, lists
\* the first min(5, J) error messages as they are, and has a remainder line,
\* with the count J - 5, iff J > 5.
C27_ErrorListsFirstFiveVerbatim ==
  (combined # Pending /\ Len(failed) >= 1) =>
     /\ combined.total = Len(failed)
     /\ Len(combined.listed) = Min2(5, Len(failed))
     /\ \A i \in 1..Len(combined.listed) : combined.listed[i] = failed[i]
     /\ (combined.more > 0) <=> (Len(failed) > 5)
     /\ Len(failed) > 5 => combined.more = Len(failed) - 5

\* the same without the messages being as they were: what does hold
CombinedCountsAreRight ==
  (combined # Pending /\ Len(failed) >= 1) =>
     /\ combined.total = Len(failed)
     /\ Len(combined.listed) = Min2(5, Len(failed))
     /\ (combined.more > 0) <=> (Len(failed) > 5)
     /\ Len(failed) > 5 => combined.more = Len(failed) - 5

(* ------------------------------- C28 ----------------------------------- *)
\* the title elements of a tree, in document order
TitlesOf(n) == SelectSeq(Preorder(n), LAMBDA x : x.type = "element" /\ x.data = "title")

\* the first text child of a node ("" when it has none)
FirstText(n) ==
  LET texts == SelectSeq(n.children, LAMBDA x : x.type = "text") IN
    IF texts = <<>> THEN "" ELSE texts[1].data

\* C28: once the walk of a document with several title elements is over, the
\* title is the first text child of the first title element in document
\* order: no later title element has overwritten it.
C28_FirstTitleWins ==
  (dPc = "done" /\ Len(TitlesOf(doc)) > 1 /\ FirstText(TitlesOf(doc)[1]) # "") =>
     title = FirstText(TitlesOf(doc)[1])

(* ------------------------------- C29 ----------------------------------- *)
\* analyzeDocument or analyzeDocumentMulti has written the counts and the
\* tallies into the result
CountsWritten == mode \in {"handler", "direct", "multi"} /\ pResult # NoResult

\* C29: when the counts and tallies are written into the result, every probe
\* that was started has finished; from then on no probe goroutine runs or
\* changes a tally (the result holds the tallies as they are), and in the
\* batch analyzer the link channel is closed and empty, so that every link
\* checker has left its loop.
C29_ResultWrittenAfterAllProbes ==
  CountsWritten =>
     /\ \A l \in AllLinks : gPc[l] \in {"none", "done"}
     /\ linkWg = 0
     /\ pResult.internal[2] = internalInaccessible
     /\ pResult.external[2] = externalInaccessible
     /\ mode = "multi" => (linkChClosed /\ linkCh = <<>> /\ Active = {})

\* the batch analyzer has returned a result after a link of the page was
\* probed and tallied
C29_Witness ==
  /\ CountsWritten /\ mode = "multi" /\ linkChClosed
  /\ \E l \in AllLinks : tallied[l] /\ gPc[l] = "done"

====
